---- MODULE Spec2Model ----
(***************************************************************************)
(* State-machine model of the travel assistant's recommendation dialogue   *)
(* (SimpleConversationHandler), of the ranking service it drives           *)
(* (SimpleRecommendationService) and of the chat page's trip-context flow  *)
(* (app/main.py).                                                          *)
(*                                                                         *)
(* Python values are modelled as follows: a str is a TLA+ string, a list   *)
(* is a sequence, a dict is a function whose DOMAIN is the set of keys     *)
(* that are present, None is NoneVal.  A float score is an exact integer   *)
(* number of 1/Scale units.                                                *)
(***************************************************************************)
EXTENDS Integers, Sequences, FiniteSets, TLC

VARIABLES
    conversation_state,  \* the dict the caller holds between turns
    response,            \* what the last turn returned as its first component
    message,             \* the utterance of the last turn
    pre_state,           \* conversation_state as it was when the last turn began
    raised,              \* whether and where an exception was raised in the last turn
    rec_call,            \* the get_recommendations call of the last turn, if any
    selected,            \* the destination document resolved in the last turn, if any
    repeats,             \* consecutive "what would you like to change" prompts so far
    e2e_step,            \* how far the run has followed the end-to-end scenario
    user_profile,        \* the persona dict passed with every turn
    destinations,        \* the destination documents held by the store
    \* the chat page (app/main.py)
    current_page,          \* st.session_state.current_page
    chat_history,          \* the number of messages in st.session_state.chat_history
    current_trip_id,       \* st.session_state.current_trip_id
    awaiting_confirmation, \* st.session_state.awaiting_confirmation
    trip_contexts,         \* the trip context documents of the store, by trip id
    trip_manager,          \* whether get_services returned a TripContextManager
    trip_pre,              \* the session flags and the store when the last message arrived
    trip_turn,             \* what the last message was and what became of it
    persona,               \* st.session_state.persona, if any
    persona_doc,           \* the persona document the store holds for the user, if any
    \* one call of get_recommendations on its own
    score_call,            \* the arguments and the similarities of the call
    scored,                \* the scored destinations before the sort, and the list returned
    \* one call of create_travel_plan on its own
    plan_call,             \* the message, whether the chat model answered, and the reply
    \* two conversations served by one handler
    conversations          \* per conversation: its persona, its state dict, its turns so far

vars == <<conversation_state, response, message, pre_state, raised, rec_call,
          selected, repeats, e2e_step, user_profile, destinations,
          current_page, chat_history, current_trip_id, awaiting_confirmation,
          trip_contexts, trip_manager, trip_pre, trip_turn, persona, persona_doc,
          score_call, scored, plan_call, conversations>>

\* Longest run of consecutive re-prompts that is counted (the counter saturates).
MaxRepeats == 3

NoneVal == "<None>"

----------------------------------------------------------------------------
(* Python dict and truthiness *)

DictGet(d, k, default) == IF k \in DOMAIN d THEN d[k] ELSE default

DictPut(d, k, v) == [x \in (DOMAIN d) \cup {k} |-> IF x = k THEN v ELSE d[x]]

EmptyDict == [x \in {} |-> NoneVal]

\* bool(x) of an Optional[str]
Truthy(x) == x # NoneVal /\ x # ""

----------------------------------------------------------------------------
(* Python str operations *)

Char(s, i) == SubSeq(s, i, i)

\* k in s
Contains(s, k) ==
    \E i \in 1..(Len(s) - Len(k) + 1) : SubSeq(s, i, i + Len(k) - 1) = k

\* any(k in s for k in keywords)
ContainsAny(s, keywords) ==
    \E n \in 1..Len(keywords) : Contains(s, keywords[n])

\* the first element of keywords that occurs in s, or None
FirstMatch(s, keywords) ==
    IF ContainsAny(s, keywords)
    THEN keywords[CHOOSE n \in 1..Len(keywords) :
                    /\ Contains(s, keywords[n])
                    /\ \A m \in 1..(n - 1) : ~Contains(s, keywords[m])]
    ELSE NoneVal

\* The character tables: c.lower() of the upper-case letters and c.upper() of
\* the lower-case ones, by position in the alphabet; the letters; the
\* characters matched by \w of the re module.
CharTables ==
    LET UpperLetters == "ABCDEFGHIJKLMNOPQRSTUVWXYZ"
        LowerLetters == "abcdefghijklmnopqrstuvwxyz"
    IN  [lower   |-> [c \in {Char(UpperLetters, i) : i \in 1..Len(UpperLetters)} |->
                         Char(LowerLetters,
                              CHOOSE i \in 1..Len(UpperLetters) : Char(UpperLetters, i) = c)],
         upper   |-> [c \in {Char(LowerLetters, i) : i \in 1..Len(LowerLetters)} |->
                         Char(UpperLetters,
                              CHOOSE i \in 1..Len(LowerLetters) : Char(LowerLetters, i) = c)],
         letters |-> {Char(UpperLetters \o LowerLetters, i) :
                         i \in 1..Len(UpperLetters \o LowerLetters)},
         word    |-> {Char(UpperLetters \o LowerLetters \o "0123456789_", i) :
                         i \in 1..Len(UpperLetters \o LowerLetters \o "0123456789_")}]

\* the character c in the case of table: c.lower() is
\* CaseChar(c, CharTables.lower), c.upper() is CaseChar(c, CharTables.upper)
CaseChar(c, table) == IF c \in DOMAIN table THEN table[c] ELSE c

RECURSIVE StrLower(_)
\* s.lower(), character by character (the string is halved to keep the
\* recursion shallow)
StrLower(s) ==
    IF s = "" THEN ""
    ELSE IF Len(s) = 1 THEN CaseChar(s, CharTables.lower)
    ELSE StrLower(SubSeq(s, 1, Len(s) \div 2))
         \o StrLower(SubSeq(s, Len(s) \div 2 + 1, Len(s)))

RECURSIVE StrTitle(_, _)
\* s.title(), from the i-th character on: s.title() is StrTitle(s, 1)
StrTitle(s, i) ==
    IF i > Len(s) THEN ""
    ELSE (IF i > 1 /\ Char(s, i - 1) \in CharTables.letters
          THEN CaseChar(Char(s, i), CharTables.lower)
          ELSE CaseChar(Char(s, i), CharTables.upper)) \o StrTitle(s, i + 1)

RECURSIVE StrStrip(_)
\* s.strip()
StrStrip(s) ==
    IF s # "" /\ Char(s, 1) = " " THEN StrStrip(SubSeq(s, 2, Len(s)))
    ELSE IF s # "" /\ Char(s, Len(s)) = " " THEN StrStrip(SubSeq(s, 1, Len(s) - 1))
    ELSE s

\* s.split(k, 1)[1] for a k that occurs in s
AfterFirst(s, k) ==
    LET i == CHOOSE j \in 1..(Len(s) - Len(k) + 1) :
                /\ SubSeq(s, j, j + Len(k) - 1) = k
                /\ \A h \in 1..(j - 1) : SubSeq(s, h, h + Len(k) - 1) # k
    IN  SubSeq(s, i + Len(k), Len(s))

RECURSIVE ReSubFrom(_, _, _)
\* re.sub(r'\b(w1|w2|...)\b', '', s) from index i, i being no inner index of a
\* word; j is the last index of the run of \w characters that starts at i
ReSubFrom(s, i, words) ==
    IF i > Len(s) THEN ""
    ELSE IF Char(s, i) \in CharTables.word
         THEN LET j == CHOOSE e \in i..Len(s) :
                          /\ \A h \in i..e : Char(s, h) \in CharTables.word
                          /\ (e = Len(s) \/ Char(s, e + 1) \notin CharTables.word)
                  w == SubSeq(s, i, j)
              IN  (IF w \in words THEN "" ELSE w) \o ReSubFrom(s, j + 1, words)
         ELSE Char(s, i) \o ReSubFrom(s, i + 1, words)

RECURSIVE StrSplit(_, _)
\* s.split() is StrSplit(s, 1): the runs of non-blanks of s from index i on;
\* j is the last index of the run that starts at i
StrSplit(s, i) ==
    IF i > Len(s) THEN <<>>
    ELSE IF Char(s, i) = " " THEN StrSplit(s, i + 1)
         ELSE LET j == CHOOSE e \in i..Len(s) :
                          /\ \A h \in i..e : Char(s, h) # " "
                          /\ (e = Len(s) \/ Char(s, e + 1) = " ")
              IN  <<SubSeq(s, i, j)>> \o StrSplit(s, j + 1)

RECURSIVE StrJoin(_, _)
\* sep.join(parts)
StrJoin(sep, parts) ==
    IF parts = <<>> THEN ""
    ELSE IF Len(parts) = 1 THEN parts[1]
         ELSE parts[1] \o sep \o StrJoin(sep, Tail(parts))

----------------------------------------------------------------------------
(* SimpleRecommendationService *)

\* A score is an exact integer number of 1/Scale units.  Scale is divisible by
\* 20 times every total_weight a persona can produce (100 * k, k <= 16) and by
\* 20 * 1000, so no division below rounds.
Scale == 2000 * 720720

\* The weights of the blend 0.5, 0.3, 0.15, 0.05, in twentieths.
WeightSimilarity == 10
WeightActivity == 6
WeightBudget == 3
WeightDuration == 1

\* scored_destinations[:5]
TopN == 5

personality_terms ==
    [cultural_explorer |-> "culture museums history heritage temples",
     adventure_seeker  |-> "adventure outdoor hiking mountains trekking",
     luxury_traveler   |-> "luxury premium upscale elegant sophisticated",
     foodie            |-> "food cuisine restaurants culinary dining",
     nature_lover      |-> "nature wildlife parks forests mountains",
     budget_backpacker |-> "budget affordable backpacker authentic local",
     wellness_guru     |-> "wellness spa relaxation peaceful tranquil",
     family_vacationer |-> "family friendly safe entertainment activities"]

activity_terms ==
    [museums_culture   |-> "museums cultural heritage",
     outdoor_adventure |-> "outdoor adventure hiking",
     food_wine         |-> "food wine cuisine",
     beaches           |-> "beaches coastal ocean",
     nightlife         |-> "nightlife entertainment",
     wellness_spa      |-> "wellness spa relaxation",
     nature_wildlife   |-> "nature wildlife parks"]

budget_terms ==
    [budget_conscious |-> "affordable budget",
     mid_range        |-> "moderate",
     luxury           |-> "luxury premium"]

\* A variant of create_search_query that appends the override text after the
\* budget keyword.  C25_SearchQueryOrder tells it from create_search_query.
create_search_query_override_last(profile, preference_changes) ==
    LET changes    == IF Truthy(preference_changes) THEN <<preference_changes>> ELSE <<>>
        traveler_types == DictGet(profile, "traveler_types", <<>>)
        activity_preferences == DictGet(profile, "activity_preferences", <<>>)
        types      == [n \in 1..Len(traveler_types) |->
                          DictGet(personality_terms, traveler_types[n], traveler_types[n])]
        activities == [n \in 1..Len(activity_preferences) |->
                          DictGet(activity_terms, activity_preferences[n],
                                  activity_preferences[n])]
        budget     == DictGet(budget_terms, DictGet(profile, "budget_style", "mid_range"),
                              "moderate")
    IN  StrJoin(" ", types \o activities \o <<budget>> \o changes)

create_search_query(profile, preference_changes) ==
    LET changes    == IF Truthy(preference_changes) THEN <<preference_changes>> ELSE <<>>
        traveler_types == DictGet(profile, "traveler_types", <<>>)
        activity_preferences == DictGet(profile, "activity_preferences", <<>>)
        types      == [n \in 1..Len(traveler_types) |->
                          DictGet(personality_terms, traveler_types[n], traveler_types[n])]
        activities == [n \in 1..Len(activity_preferences) |->
                          DictGet(activity_terms, activity_preferences[n],
                                  activity_preferences[n])]
        budget     == DictGet(budget_terms, DictGet(profile, "budget_style", "mid_range"),
                              "moderate")
    IN  StrJoin(" ", changes \o types \o activities \o <<budget>>)

preference_mappings ==
    [cultural_explorer |-> <<"culture_score", "urban_score">>,
     adventure_seeker  |-> <<"adventure_score", "nature_score">>,
     luxury_traveler   |-> <<"urban_score", "cuisine_score">>,
     foodie            |-> <<"cuisine_score">>,
     nature_lover      |-> <<"nature_score", "seclusion_score">>,
     budget_backpacker |-> <<"culture_score", "adventure_score">>,
     wellness_guru     |-> <<"wellness_score", "seclusion_score">>,
     family_vacationer |-> <<"urban_score", "beaches_score">>]

activity_mappings ==
    [museums_culture   |-> <<"culture_score">>,
     outdoor_adventure |-> <<"adventure_score", "nature_score">>,
     food_wine         |-> <<"cuisine_score">>,
     beaches           |-> <<"beaches_score">>,
     nightlife         |-> <<"nightlife_score">>,
     wellness_spa      |-> <<"wellness_score">>,
     nature_wildlife   |-> <<"nature_score">>]

RECURSIVE MappedKeys(_, _)
\* the score keys visited by the two nested loops, in order, with repetitions
MappedKeys(tags, table) ==
    IF tags = <<>> THEN <<>>
    ELSE DictGet(table, Head(tags), <<>>) \o MappedKeys(Tail(tags), table)

RECURSIVE SumScores(_, _)
SumScores(keys, destination) ==
    IF keys = <<>> THEN 0
    ELSE DictGet(destination, Head(keys), 0) + SumScores(Tail(keys), destination)

\* A variant of calculate_activity_match that gives the neutral half to a
\* persona none of whose tags maps to a feature.  C22_ActivityMatchIsAverage
\* tells it from calculate_activity_match.
calculate_activity_match_neutral(profile, destination) ==
    LET keys == MappedKeys(DictGet(profile, "traveler_types", <<>>), preference_mappings)
                \o MappedKeys(DictGet(profile, "activity_preferences", <<>>),
                              activity_mappings)
        total_score  == SumScores(keys, destination)
        total_weight == 100 * Len(keys)
    IN  IF total_weight > 0 THEN total_score * (Scale \div total_weight)
        ELSE Scale \div 2

calculate_activity_match(profile, destination) ==
    LET keys == MappedKeys(DictGet(profile, "traveler_types", <<>>), preference_mappings)
                \o MappedKeys(DictGet(profile, "activity_preferences", <<>>),
                              activity_mappings)
        total_score  == SumScores(keys, destination)
        total_weight == 100 * Len(keys)
    IN  IF total_weight > 0 THEN total_score * (Scale \div total_weight) ELSE 0

\* A variant of the table in which a luxury traveller is as well served by a
\* Budget destination as by a Mid-Range one.  C23_BudgetTable tells it from
\* compatibility.
compatibility_flat ==
    [budget_conscious |-> [Budget |-> 10, MidRange |-> 7, Luxury |-> 3],
     mid_range        |-> [Budget |-> 8, MidRange |-> 10, Luxury |-> 6],
     luxury           |-> [Budget |-> 7, MidRange |-> 7, Luxury |-> 10]]

\* the compatibility table, in tenths
compatibility ==
    [budget_conscious |-> [Budget |-> 10, MidRange |-> 7, Luxury |-> 3],
     mid_range        |-> [Budget |-> 8, MidRange |-> 10, Luxury |-> 6],
     luxury           |-> [Budget |-> 4, MidRange |-> 7, Luxury |-> 10]]

\* tier is the key of the destination tier in the table above
calculate_budget_match(profile, dest_budget) ==
    LET user_budget == DictGet(profile, "budget_style", "mid_range")
        tier        == IF dest_budget = "Mid-Range" THEN "MidRange" ELSE dest_budget
    IN  IF user_budget \in DOMAIN compatibility
           /\ tier \in DOMAIN compatibility[user_budget]
        THEN compatibility[user_budget][tier] * (Scale \div 10)
        ELSE Scale \div 2

\* A variant of calculate_duration_match that gives nothing to a destination
\* whose hint does not match the requested bucket.  C24_DurationMatch tells it
\* from calculate_duration_match.
calculate_duration_match_strict(trip_duration, ideal_durations) ==
    IF ~Truthy(trip_duration) \/ ~Truthy(ideal_durations) THEN Scale \div 2
    ELSE IF /\ Contains(StrLower(trip_duration), "short")
            /\ (Contains(ideal_durations, "3-5") \/ Contains(ideal_durations, "2-4"))
         THEN Scale
         ELSE IF /\ Contains(StrLower(trip_duration), "long")
                 /\ (Contains(ideal_durations, "7-10")
                     \/ Contains(ideal_durations, "1-2 weeks"))
              THEN Scale
              ELSE 0

calculate_duration_match(trip_duration, ideal_durations) ==
    IF ~Truthy(trip_duration) \/ ~Truthy(ideal_durations) THEN Scale \div 2
    ELSE IF /\ Contains(StrLower(trip_duration), "short")
            /\ (Contains(ideal_durations, "3-5") \/ Contains(ideal_durations, "2-4"))
         THEN Scale
         ELSE IF /\ Contains(StrLower(trip_duration), "long")
                 /\ (Contains(ideal_durations, "7-10")
                     \/ Contains(ideal_durations, "1-2 weeks"))
              THEN Scale
              ELSE Scale \div 2

\* similarity * 0.5 + activity_score * 0.3 + budget_score * 0.15 + duration_score * 0.05
\* A variant of combined_score that counts the duration score against the
\* destination.  C18_LinearBlendMonotone tells it from combined_score.
combined_score_penalising(similarity, activity, budget, duration) ==
    (similarity \div 20) * WeightSimilarity + (activity \div 20) * WeightActivity
    + (budget \div 20) * WeightBudget - (duration \div 20) * WeightDuration

combined_score(similarity, activity, budget, duration) ==
    (similarity \div 20) * WeightSimilarity + (activity \div 20) * WeightActivity
    + (budget \div 20) * WeightBudget + (duration \div 20) * WeightDuration

\* the keys the scoring loop reads with dest[...]: a document without one raises KeyError
ScoringKeys == {"description_embedding", "budget_level", "ideal_durations"}

\* A variant of ScoredDestination that leaves the duration score out of the
\* entry.  C8_EndToEnd tells it from ScoredDestination.
ScoredWithoutDuration(dest, similarity, activity, budget, duration) ==
    LET scores == [similarity_score |-> similarity,
                   activity_score   |-> activity,
                   budget_score     |-> budget,
                   combined_score   |-> combined_score(similarity, activity,
                                                       budget, duration)]
    IN  [k \in (DOMAIN dest) \cup (DOMAIN scores) |->
            IF k \in DOMAIN scores THEN scores[k] ELSE dest[k]]

\* {**dest, 'similarity_score': ..., ..., 'combined_score': ...}
ScoredDestination(dest, similarity, activity, budget, duration) ==
    LET scores == [similarity_score |-> similarity,
                   activity_score   |-> activity,
                   budget_score     |-> budget,
                   duration_score   |-> duration,
                   combined_score   |-> combined_score(similarity, activity,
                                                       budget, duration)]
    IN  [k \in (DOMAIN dest) \cup (DOMAIN scores) |->
            IF k \in DOMAIN scores THEN scores[k] ELSE dest[k]]

\* one iteration of the scoring loop; sim_milli is the cosine similarity in thousandths
ScoreDestination(profile, trip_duration, dest, sim_milli) ==
    ScoredDestination(dest,
                      sim_milli * (Scale \div 1000),
                      calculate_activity_match(profile, dest),
                      calculate_budget_match(profile, dest["budget_level"]),
                      calculate_duration_match(trip_duration, dest["ideal_durations"]))

RECURSIVE InsertSorted(_, _)
\* x placed after every element whose combined_score is not smaller
InsertSorted(sorted, x) ==
    IF sorted = <<>> THEN <<x>>
    ELSE IF Head(sorted)["combined_score"] >= x["combined_score"]
         THEN <<Head(sorted)>> \o InsertSorted(Tail(sorted), x)
         ELSE <<x>> \o sorted

RECURSIVE SortDescending(_)
\* list.sort(key=combined_score, reverse=True): stable, equal scores keep their order
SortDescending(xs) ==
    IF xs = <<>> THEN <<>>
    ELSE InsertSorted(SortDescending(SubSeq(xs, 1, Len(xs) - 1)), xs[Len(xs)])

\* get_all_destinations: the rows of the store, [] when the query raises
get_all_destinations(store, store_ok) == IF store_ok THEN store ELSE <<>>

\* the scoring loop, the sort and the slice, over the rows the store returned.
\* np.dot raises ValueError on a stored vector whose length is not the query
\* vector's; like the KeyError of a missing key it is caught by the except
\* clause of get_recommendations, which returns [].
RankRows(profile, trip_duration, rows, sim) ==
    IF rows = <<>> THEN <<>>
    ELSE IF \E n \in 1..Len(rows) : ~(ScoringKeys \subseteq DOMAIN rows[n]) THEN <<>>
    ELSE IF \E n \in 1..Len(rows) : rows[n]["description_embedding"] # "vector" THEN <<>>
    ELSE SubSeq(SortDescending([n \in 1..Len(rows) |->
                    ScoreDestination(profile, trip_duration, rows[n], sim[n])]),
                1, IF Len(rows) < TopN THEN Len(rows) ELSE TopN)

\* env: the collaborators' behaviour during this call
\*   embed_ok: embedding_model.encode returns; store_ok: cluster.query returns;
\*   sim: the cosine similarity (thousandths) of the query and each stored document
get_recommendations(profile, trip_month, trip_duration, preference_changes, store, env) ==
    IF ~env.embed_ok THEN <<>>
    ELSE RankRows(profile, trip_duration, get_all_destinations(store, env.store_ok),
                  env.sim)

format_recommendations_listing(recommendations) ==
    [kind |-> "recommendation_list",
     args |-> [n \in 1..Len(recommendations) |->
                   <<recommendations[n]["city"], recommendations[n]["country"],
                     recommendations[n]["combined_score"]>>]]

\* format_recommendations, for a list on which it does not raise: the text is
\* represented by its template and the values substituted into it
format_recommendations(recommendations) ==
    IF recommendations = <<>>
    THEN [kind |-> "no_match_question", args |-> <<>>]
    ELSE [kind |-> "recommendation_list",
          args |-> [n \in 1..Len(recommendations) |->
                        <<recommendations[n]["city"], recommendations[n]["country"],
                          recommendations[n]["combined_score"]>>]]

\* city LIKE '%name%' OR country LIKE '%name%' (LIKE compares case-sensitively)
LikeMatches(doc, name) ==
    /\ "type" \in DOMAIN doc /\ doc["type"] = "destination"
    /\ \/ "city" \in DOMAIN doc /\ Contains(doc["city"], name)
       \/ "country" \in DOMAIN doc /\ Contains(doc["country"], name)

\* What get_destination_by_name may return for a name: <<d>> for the document
\* d, <<>> for None.  LIMIT 1 without ORDER BY returns any one matching row; a
\* name holding a quote ends the string literal of the statement, the query
\* raises and the except clause returns None.
get_destination_by_name(name, store, store_ok) ==
    LET matches == {n \in 1..Len(store) : LikeMatches(store[n], name)}
    IN  IF ~store_ok \/ Contains(name, "'") \/ matches = {}
        THEN {<<>>}
        ELSE {<<store[n]>> : n \in matches}

----------------------------------------------------------------------------
(* BedrockService.create_travel_plan *)

greeting_keywords == <<"hello", "hi", "hey", "good morning", "good afternoon">>
plan_recommend_keywords == <<"recommend", "suggest", "where should i go", "places to visit">>
destination_keywords == <<"go to", "visit", "travel to", "trip to">>
duration_keywords == <<"days", "weeks", "weekend">>

\* greeting_keywords is consulted only for messages shorter than this
GreetingMaxLen == 20

\* the method create_travel_plan routes user_message to
RouteIn(message_lower) ==
    IF ContainsAny(message_lower, greeting_keywords)
       /\ Len(message_lower) < GreetingMaxLen
    THEN "create_greeting_response"
    ELSE IF ContainsAny(message_lower, plan_recommend_keywords)
    THEN "create_recommendation_response"
    ELSE IF ContainsAny(message_lower, destination_keywords)
    THEN IF ContainsAny(message_lower, duration_keywords)
         THEN "create_detailed_itinerary"
         ELSE "create_destination_response"
    ELSE "create_general_chat_response"

\* extract_destination_from_message: the first of the lead-in phrases, in the
\* order of the list, that occurs in the lowered message; what follows its
\* first occurrence is split at blanks and the first two words, in title
\* case, are the destination
extract_destination_from_message(user_message) ==
    LET message_lower == StrLower(user_message)
        keyword == FirstMatch(message_lower, <<"go to", "visit", "travel to", "trip to">>)
        words   == StrSplit(StrStrip(AfterFirst(message_lower, keyword)), 1)
    IN  IF keyword = NoneVal THEN "that destination"
        ELSE StrTitle(StrJoin(" ", SubSeq(words, 1, IF Len(words) < 2 THEN Len(words)
                                                     ELSE 2)), 1)

RECURSIVE IntOf(_)
\* int(digits) of a string of decimal digits
IntOf(digits) ==
    IF digits = "" THEN 0
    ELSE 10 * IntOf(SubSeq(digits, 1, Len(digits) - 1))
         + (CHOOSE d \in 0..9 : Char("0123456789", d + 1) = Char(digits, Len(digits)))

\* min(int(N), 7)
MaxItineraryDays == 7

\* num_days when the message has no "<N> day"
DefaultItineraryDays == 3

\* A variant of create_simple_itinerary_from_message without the cap.
\* C28_DaysCappedAtSeven tells it from create_simple_itinerary_from_message.
create_simple_itinerary_from_message_uncapped(user_message) ==
    LET s == StrLower(user_message)
        IsDigit(i) == \E d \in 1..10 : Char("0123456789", d) = Char(s, i)
        RunEnd(i)  == CHOOSE e \in i..Len(s) :
                         /\ \A h \in i..e : IsDigit(h)
                         /\ (e = Len(s) \/ ~IsDigit(e + 1))
        DayAt(i)   == CHOOSE k \in (RunEnd(i) + 1)..(Len(s) + 1) :
                         /\ \A h \in (RunEnd(i) + 1)..(k - 1) : Char(s, h) = " "
                         /\ (k = Len(s) + 1 \/ Char(s, k) # " ")
        Matches(i) == IsDigit(i) /\ SubSeq(s, DayAt(i), DayAt(i) + 2) = "day"
        found      == {i \in 1..Len(s) : Matches(i)}
        start      == CHOOSE i \in found : \A h \in found : i <= h
    IN  [destination |-> extract_destination_from_message(user_message),
         num_days    |-> IF found = {} THEN DefaultItineraryDays
                         ELSE IntOf(SubSeq(s, start, RunEnd(start)))]

\* create_simple_itinerary_from_message: the arguments it passes to
\* create_detailed_itinerary.  re.search(r'(\d+)\s*days?', s) matches at the
\* leftmost digit i whose run of digits (it ends at RunEnd(i)) is followed,
\* after any blanks (the only white space of the messages), by "day" at DayAt(i).
create_simple_itinerary_from_message(user_message) ==
    LET s == StrLower(user_message)
        IsDigit(i) == \E d \in 1..10 : Char("0123456789", d) = Char(s, i)
        RunEnd(i)  == CHOOSE e \in i..Len(s) :
                         /\ \A h \in i..e : IsDigit(h)
                         /\ (e = Len(s) \/ ~IsDigit(e + 1))
        DayAt(i)   == CHOOSE k \in (RunEnd(i) + 1)..(Len(s) + 1) :
                         /\ \A h \in (RunEnd(i) + 1)..(k - 1) : Char(s, h) = " "
                         /\ (k = Len(s) + 1 \/ Char(s, k) # " ")
        Matches(i) == IsDigit(i) /\ SubSeq(s, DayAt(i), DayAt(i) + 2) = "day"
        found      == {i \in 1..Len(s) : Matches(i)}
        start      == CHOOSE i \in found : \A h \in found : i <= h
        N          == IntOf(SubSeq(s, start, RunEnd(start)))
    IN  [destination |-> extract_destination_from_message(user_message),
         num_days    |-> IF found = {} THEN DefaultItineraryDays
                         ELSE IF N < MaxItineraryDays THEN N ELSE MaxItineraryDays]

\* A variant of create_travel_plan whose greeting method lets the chat model's
\* exception through.  C30_GeneratorCallsGuarded tells it from create_travel_plan.
create_travel_plan_unguarded(user_message, llm_ok) ==
    LET route == RouteIn(StrLower(user_message))
    IN  IF route = "create_greeting_response" /\ ~llm_ok
        THEN [kind |-> "exception", args |-> <<>>]
        ELSE [kind |-> route,
              args |-> <<IF llm_ok THEN "generated" ELSE "fallback">>
                       \o (IF route = "create_destination_response"
                           THEN <<extract_destination_from_message(user_message)>>
                           ELSE IF route = "create_detailed_itinerary"
                           THEN <<create_simple_itinerary_from_message(user_message)
                                     .destination,
                                  create_simple_itinerary_from_message(user_message)
                                     .num_days>>
                           ELSE <<>>)]

\* The reply of the method the message is routed to: the text the chat model
\* generates for the method's prompt, or the method's fallback string when
\* invoke raises (every method catches the exception); the destination and the
\* number of days follow when the method substitutes them into both.
create_travel_plan(user_message, llm_ok) ==
    LET route == RouteIn(StrLower(user_message))
    IN  [kind |-> route,
         args |-> <<IF llm_ok THEN "generated" ELSE "fallback">>
                  \o (IF route = "create_destination_response"
                      THEN <<extract_destination_from_message(user_message)>>
                      ELSE IF route = "create_detailed_itinerary"
                      THEN <<create_simple_itinerary_from_message(user_message)
                                .destination,
                             create_simple_itinerary_from_message(user_message)
                                .num_days>>
                      ELSE <<>>)]

----------------------------------------------------------------------------
(* SimpleConversationHandler *)

recommend_keywords ==
    <<"recommend", "suggest", "where should i go", "where to go",
      "places to visit", "destinations", "travel ideas", "best places",
      "where can i travel", "travel suggestions", "recommend places">>

months ==
    <<"january", "february", "march", "april", "may", "june",
      "july", "august", "september", "october", "november", "december">>

duration_hints == <<"short", "long", "weekend", "week", "days">>

\* A variant of RequestIn that detects no month.  C3_RequestAsksDuration
\* tells it from RequestIn.
RequestInWithoutMonth(message_lower) ==
    [is_recommendation_request |-> ContainsAny(message_lower, recommend_keywords),
     detected_month            |-> NoneVal,
     detected_duration         |-> FirstMatch(message_lower, duration_hints)]

RequestIn(message_lower) ==
    [is_recommendation_request |-> ContainsAny(message_lower, recommend_keywords),
     detected_month            |-> FirstMatch(message_lower, months),
     detected_duration         |-> FirstMatch(message_lower, duration_hints)]

detect_recommendation_request(msg) == RequestIn(StrLower(msg))

selection_phrases ==
    <<"tell me about", "more about", "details about", "interested in",
      "pick", "choose", "select", "go with", "itinerary for",
      "plan for", "create itinerary", "detailed plan">>

selection_stop_words == {"the", "a", "an", "please", "for", "me"}

\* the loop over selection_phrases and the heuristic after it; phrase is the
\* first selection phrase in message_lower, or None
SelectionFrom(message_lower, phrase) ==
    IF phrase # NoneVal
    THEN StrStrip(ReSubFrom(StrStrip(AfterFirst(message_lower, phrase)), 1,
                            selection_stop_words))
    ELSE IF Len(StrSplit(message_lower, 1)) <= 3
    THEN StrJoin(" ", StrSplit(message_lower, 1))
    ELSE NoneVal

\* the result is a str, possibly empty, or None
detect_destination_selection(msg) ==
    SelectionFrom(StrLower(msg), FirstMatch(StrLower(msg), selection_phrases))

\* What a handler returns: the response, the state dict, whether an exception
\* was raised on the way ("no"; "inside": raised and caught inside a method the
\* handler called; "handler": raised out of the handler's body, the state
\* being the dict as mutated so far), the get_recommendations call made (at
\* most one) and the destination document resolved (at most one).
Outcome(resp, state, exc, call, chosen) ==
    [response |-> resp, state |-> state, raised |-> exc, rec_call |-> call,
     selected |-> chosen]

Reply(kind, args) == [kind |-> kind, args |-> args]

\* A variant of NotHandled that writes recommendation_state before it declines.
\* C2_NoKeywordNotHandled tells it from NotHandled.
NotHandledResetting(state) ==
    Outcome(Reply("None", <<>>), DictPut(state, "recommendation_state", "none"),
            "no", <<>>, <<>>)

\* return None, conversation_state
NotHandled(state) == Outcome(Reply("None", <<>>), state, "no", <<>>, <<>>)

personality_names ==
    [cultural_explorer |-> "Cultural Explorer",
     adventure_seeker  |-> "Adventure Seeker",
     luxury_traveler   |-> "Luxury Traveler",
     foodie            |-> "Foodie",
     nature_lover      |-> "Nature Lover",
     budget_backpacker |-> "Budget Backpacker",
     wellness_guru     |-> "Wellness Guru",
     family_vacationer |-> "Family Vacationer"]

budget_names ==
    [budget_conscious |-> "budget-friendly", mid_range |-> "mid-range", luxury |-> "luxury"]

companion_names ==
    [solo |-> "solo", couple |-> "couple", family_with_kids |-> "family with kids",
     group_of_friends |-> "group of friends"]

RECURSIVE StrReplaceUnderscores(_)
\* s.replace('_', ' ')
StrReplaceUnderscores(s) ==
    IF s = "" THEN ""
    ELSE IF Len(s) = 1 THEN (IF s = "_" THEN " " ELSE s)
    ELSE StrReplaceUnderscores(SubSeq(s, 1, Len(s) \div 2))
         \o StrReplaceUnderscores(SubSeq(s, Len(s) \div 2 + 1, Len(s)))

\* the text is represented by its template and the values substituted into it
generate_preference_confirmation(profile, request_info) ==
    LET personalities == DictGet(profile, "traveler_types", <<>>)
        budget        == DictGet(profile, "budget_style", "mid_range")
        companions    == DictGet(profile, "travel_companions", "solo")
        shown         == SubSeq(personalities, 1, IF Len(personalities) < 2
                                                   THEN Len(personalities) ELSE 2)
        formatted_personalities ==
            [n \in 1..Len(shown) |->
                DictGet(personality_names, shown[n],
                        StrTitle(StrReplaceUnderscores(shown[n]), 1))]
        formatted_budget == DictGet(budget_names, budget, StrReplaceUnderscores(budget))
        formatted_companions ==
            DictGet(companion_names, companions, StrReplaceUnderscores(companions))
        duration_text == IF Truthy(request_info.detected_duration)
                         THEN request_info.detected_duration ELSE "your"
        month_text    == IF Truthy(request_info.detected_month)
                         THEN StrTitle(request_info.detected_month, 1)
                         ELSE "your chosen time"
    IN  Reply("preference_confirmation",
              <<duration_text, month_text, StrTitle(formatted_budget, 1),
                StrTitle(formatted_companions, 1), StrJoin(", ", formatted_personalities)>>)

\* A variant of handle_initial_request that takes a request with a duration
\* hint to 'showing_recommendations'.  C33_FlowOrder tells it from
\* handle_initial_request.
handle_initial_request_skipping(msg, profile, request_info) ==
    LET new_state == [recommendation_state |-> "waiting_duration",
                      detected_month       |-> request_info.detected_month,
                      detected_duration    |-> request_info.detected_duration]
        month_text == IF Truthy(request_info.detected_month)
                      THEN " in " \o StrTitle(request_info.detected_month, 1) ELSE ""
    IN  IF ~Truthy(request_info.detected_duration)
        THEN Outcome(Reply("ask_duration", <<month_text>>), new_state, "no", <<>>, <<>>)
        ELSE Outcome(generate_preference_confirmation(profile, request_info),
                     DictPut(new_state, "recommendation_state", "showing_recommendations"),
                     "no", <<>>, <<>>)

handle_initial_request(msg, profile, request_info) ==
    LET new_state == [recommendation_state |-> "waiting_duration",
                      detected_month       |-> request_info.detected_month,
                      detected_duration    |-> request_info.detected_duration]
        month_text == IF Truthy(request_info.detected_month)
                      THEN " in " \o StrTitle(request_info.detected_month, 1) ELSE ""
    IN  IF ~Truthy(request_info.detected_duration)
        THEN Outcome(Reply("ask_duration", <<month_text>>), new_state, "no", <<>>, <<>>)
        ELSE Outcome(generate_preference_confirmation(profile, request_info),
                     DictPut(new_state, "recommendation_state", "waiting_preferences"),
                     "no", <<>>, <<>>)

short_words == <<"short", "weekend", "quick", "2", "3", "4">>
long_words == <<"long", "week", "proper", "7", "10", "14">>

\* A variant of BucketIn that takes an unrecognized reply for a long trip.
\* C4_UnrecognizedDurationReasks tells it from BucketIn.
BucketGuessing(message_lower) ==
    IF ContainsAny(message_lower, short_words) THEN "short" ELSE "long"

\* A variant of BucketIn that looks for the long keywords first.
\* C5_ShortKeywordToPreferences tells it from BucketIn.
BucketLongFirst(message_lower) ==
    IF ContainsAny(message_lower, long_words) THEN "long"
    ELSE IF ContainsAny(message_lower, short_words) THEN "short"
    ELSE NoneVal

\* the bucket handle_duration_response detects, None when it asks again
BucketIn(message_lower) ==
    IF ContainsAny(message_lower, short_words) THEN "short"
    ELSE IF ContainsAny(message_lower, long_words) THEN "long"
    ELSE NoneVal

same_keywords ==
    <<"same", "usual", "normal", "typical", "regular", "yes", "yep", "yeah">>
different_keywords == <<"different", "change", "new", "try", "something else", "no">>

\* A variant of PreferenceIn that looks for the want-different keywords first.
\* C38_ConfirmWinsOverDifferent tells it from PreferenceIn.
PreferenceInDifferentFirst(message_lower) ==
    IF ContainsAny(message_lower, different_keywords) THEN "different"
    ELSE IF ContainsAny(message_lower, same_keywords) THEN "same"
    ELSE "override"

\* "same", "different" or "override": the branch handle_preference_response takes
PreferenceIn(message_lower) ==
    IF ContainsAny(message_lower, same_keywords) THEN "same"
    ELSE IF ContainsAny(message_lower, different_keywords) THEN "different"
    ELSE "override"

\* the utterances a user may send
Utterances ==
    {"recommend me somewhere",
     "recommend me places in May",
     "suggest a weekend trip in june",
     "just a weekend",
     "a week",
     "2 weeks",
     "same as usual",
     "something different",
     "something different from my usual",
     "i want more adventure",
     "tell me about bali",
     "tell me about Tokyo",
     "create itinerary for the first one",
     "pick the",
     "bali",
     "14"}

\* What the four detections find in each utterance.  A detection reads
\* nothing but the utterance, so it is computed once per utterance here and
\* looked up by the handlers.
Detections ==
    [u \in Utterances |->
        [request    |-> detect_recommendation_request(u),
         bucket     |-> BucketIn(StrLower(u)),
         preference |-> PreferenceIn(StrLower(u)),
         selection  |-> detect_destination_selection(u)]]

\* the part of handle_duration_response after the detection
DurationDetected(detected_duration, profile, state) ==
    LET stored       == DictPut(DictPut(state, "detected_duration", detected_duration),
                                "recommendation_state", "waiting_preferences")
        request_info == [detected_month    |-> DictGet(state, "detected_month", NoneVal),
                         detected_duration |-> detected_duration]
    IN  IF detected_duration = NoneVal
        THEN Outcome(Reply("reask_duration", <<>>), state, "no", <<>>, <<>>)
        ELSE Outcome(generate_preference_confirmation(profile, request_info), stored,
                     "no", <<>>, <<>>)

handle_duration_response(msg, profile, state) ==
    DurationDetected(Detections[msg].bucket, profile, state)

\* an exception is raised (and caught) inside get_recommendations
RecommendationsRaise(store, env) ==
    \/ ~env.embed_ok
    \/ ~env.store_ok
    \/ \E n \in 1..Len(store) : \/ ~(ScoringKeys \subseteq DOMAIN store[n])
                                  \/ store[n]["description_embedding"] # "vector"

\* A recommending branch from the point where get_recommendations has
\* returned.  format_recommendations raises on a row without one of the keys
\* it reads with dest[...]; the response is the formatted list, after the sentence naming
\* the request when the utterance is used as preference changes.
Recommended(recommendations, call, state, preference_changes, exc) ==
    IF \E n \in 1..Len(recommendations) :
          ~({"city", "country", "region", "short_description", "budget_level",
             "ideal_durations", "combined_score"} \subseteq DOMAIN recommendations[n])
    THEN Outcome(Reply("None", <<>>), state, "handler", call, <<>>)
    ELSE Outcome(IF preference_changes = NoneVal
                 THEN format_recommendations(recommendations)
                 ELSE Reply("override_recommendations",
                            <<preference_changes,
                              format_recommendations(recommendations)>>),
                 DictPut(DictPut(state, "recommendation_state", "showing_recommendations"),
                         "current_recommendations", recommendations),
                 exc, call, <<>>)

\* the branches of handle_preference_response that compute recommendations;
\* the get_recommendations call is recorded in rec_call, with whether the
\* embedding model and the store answered during it
Recommend(profile, state, preference_changes, store, env) ==
    Recommended(get_recommendations(profile, DictGet(state, "detected_month", NoneVal),
                                    DictGet(state, "detected_duration", NoneVal),
                                    preference_changes, store, env),
                <<[trip_month         |-> DictGet(state, "detected_month", NoneVal),
                   trip_duration      |-> DictGet(state, "detected_duration", NoneVal),
                   preference_changes |-> preference_changes,
                   search_query       |-> create_search_query(profile,
                                                              preference_changes),
                   embed_ok           |-> env.embed_ok,
                   store_ok           |-> env.store_ok]>>,
                state, preference_changes,
                IF RecommendationsRaise(store, env) THEN "inside" ELSE "no")

\* the branch that asks what to change
AskWhatToChange(state) ==
    Outcome(Reply("ask_what_to_change", <<>>),
            DictPut(state, "recommendation_state", "waiting_preferences"),
            "no", <<>>, <<>>)

\* A variant of PreferenceBranch that takes a "different" reply for the
\* preference changes.  C6_DifferentAsksWhatToChange tells it from PreferenceBranch.
PreferenceBranchOverriding(branch, msg, profile, state, store, env) ==
    IF branch = "same" THEN Recommend(profile, state, NoneVal, store, env)
    ELSE Recommend(profile, state, msg, store, env)

\* A variant of PreferenceBranch that asks again when neither keyword set
\* matches.  C7_FreeTextIsOverride tells it from PreferenceBranch.
PreferenceBranchAmbiguous(branch, msg, profile, state, store, env) ==
    IF branch = "same" THEN Recommend(profile, state, NoneVal, store, env)
    ELSE AskWhatToChange(state)

PreferenceBranch(branch, msg, profile, state, store, env) ==
    IF branch = "same" THEN Recommend(profile, state, NoneVal, store, env)
    ELSE IF branch = "different" THEN AskWhatToChange(state)
    ELSE Recommend(profile, state, msg, store, env)

handle_preference_response(msg, profile, state, store, env) ==
    PreferenceBranch(Detections[msg].preference, msg, profile, state, store, env)

\* The prompt create_itinerary_with_bedrock sends, shortened to the lines that
\* carry a substituted value and to the section headings of the format part.
ItineraryPrompt(d, profile, trip_month, trip_duration) ==
    "Create a detailed travel itinerary for " \o d["city"] \o ", " \o d["country"] \o ". "
    \o "Description: " \o d["short_description"] \o " "
    \o "Budget Level: " \o d["budget_level"] \o " "
    \o "Ideal Duration: " \o d["ideal_durations"] \o " "
    \o "Travel Style: " \o StrJoin(", ", DictGet(profile, "traveler_types", <<>>)) \o " "
    \o "Budget: " \o DictGet(profile, "budget_style", "mid_range") \o " "
    \o "Companions: " \o DictGet(profile, "travel_companions", "solo") \o " "
    \o "Interests: " \o StrJoin(", ", DictGet(profile, "activity_preferences", <<>>)) \o " "
    \o "Duration: " \o (IF Truthy(trip_duration) THEN trip_duration ELSE "flexible") \o " "
    \o "Month: " \o (IF Truthy(trip_month) THEN trip_month ELSE "flexible") \o " "
    \o "Accommodation Recommendation Why recommended Budget Summary Personalized Tips "
    \o "Create this itinerary now."

\* [response, raised] of create_itinerary_with_bedrock; the first set is the
\* keys read inside the try block, the second those its except clause reads
create_itinerary_with_bedrock(d, profile, trip_month, trip_duration, llm_ok) ==
    IF {"city", "country", "short_description", "budget_level", "ideal_durations",
        "culture_score", "adventure_score", "nature_score", "cuisine_score",
        "nightlife_score"} \subseteq DOMAIN d
    THEN [response |-> create_travel_plan(
                           ItineraryPrompt(d, profile, trip_month, trip_duration), llm_ok),
          raised   |-> IF llm_ok THEN "no" ELSE "inside"]
    ELSE IF {"city", "country", "short_description"} \subseteq DOMAIN d
    THEN [response |-> Reply("itinerary_difficulties", <<d["city"], d["country"]>>),
          raised   |-> "inside"]
    ELSE [response |-> Reply("None", <<>>), raised |-> "handler"]

\* the branch taken once destination_data is found, made being what
\* create_itinerary_with_bedrock returned
ItineraryMade(made, d, state) ==
    IF made.raised = "handler"
    THEN Outcome(made.response, state, "handler", <<>>, <<d>>)
    ELSE Outcome(made.response, DictPut(state, "recommendation_state", "none"),
                 made.raised, <<>>, <<d>>)

Selected(d, profile, state, env) ==
    ItineraryMade(create_itinerary_with_bedrock(d, profile,
                      DictGet(state, "detected_month", NoneVal),
                      DictGet(state, "detected_duration", NoneVal), env.llm_ok),
                  d, state)

\* handle_destination_selection after the detection.  env.found is the row the
\* store returns for the query, one of
\* get_destination_by_name(selected_destination, store, env.store_ok)
SelectionDetected(selected_destination, profile, state, env) ==
    IF Truthy(selected_destination)
    THEN IF env.found # <<>>
         THEN Selected(env.found[1], profile, state, env)
         ELSE Outcome(Reply("not_found", <<selected_destination>>), state,
                      IF env.store_ok /\ ~Contains(selected_destination, "'")
                      THEN "no" ELSE "inside",
                      <<>>, <<>>)
    ELSE Outcome(Reply("ask_selection", <<>>), state, "no", <<>>, <<>>)

handle_destination_selection(msg, profile, state, store, env) ==
    SelectionDetected(Detections[msg].selection, profile, state, env)

\* the try/except around the body, and its except clause
Guarded(body) ==
    IF body.raised = "handler"
    THEN Outcome(Reply("error_apology", <<>>),
                 DictPut(body.state, "recommendation_state", "none"),
                 "handler", body.rec_call, body.selected)
    ELSE body

\* A variant of FlowBody whose initial request writes its three keys into the
\* dict it was passed and keeps the other keys.  C37_RequestStartsAfresh tells
\* it from FlowBody.
FlowBodyKeeping(current_state, msg, profile, state, store, env) ==
    IF current_state = "none"
    THEN (IF Detections[msg].request.is_recommendation_request
          THEN [handle_initial_request(msg, profile, Detections[msg].request) EXCEPT
                   !.state = [k \in (DOMAIN state) \cup (DOMAIN @) |->
                                 IF k \in DOMAIN @ THEN @[k] ELSE state[k]]]
          ELSE NotHandled(state))
    ELSE IF current_state = "waiting_duration"
    THEN handle_duration_response(msg, profile, state)
    ELSE IF current_state = "waiting_preferences"
    THEN handle_preference_response(msg, profile, state, store, env)
    ELSE IF current_state = "showing_recommendations"
    THEN handle_destination_selection(msg, profile, state, store, env)
    ELSE NotHandled(DictPut(state, "recommendation_state", "none"))

\* the body of the try block
FlowBody(current_state, msg, profile, state, store, env) ==
    IF current_state = "none"
    THEN (IF Detections[msg].request.is_recommendation_request
          THEN handle_initial_request(msg, profile, Detections[msg].request)
          ELSE NotHandled(state))
    ELSE IF current_state = "waiting_duration"
    THEN handle_duration_response(msg, profile, state)
    ELSE IF current_state = "waiting_preferences"
    THEN handle_preference_response(msg, profile, state, store, env)
    ELSE IF current_state = "showing_recommendations"
    THEN handle_destination_selection(msg, profile, state, store, env)
    ELSE NotHandled(DictPut(state, "recommendation_state", "none"))

handle_recommendation_flow(msg, profile, state, store, env) ==
    Guarded(FlowBody(DictGet(state, "recommendation_state", "none"), msg, profile,
                     state, store, env))

----------------------------------------------------------------------------
(* Inputs *)

\* The destination document store_destinations_in_couchbase writes for a CSV
\* row (the coordinates, the temperatures and the creation time, which nothing
\* modelled here reads, are left out; the embedding is read only through the
\* similarity the collaborator reports).
Destination(id, city, country, region, description, budget, durations, features) ==
    [destination_id        |-> id,
     city                  |-> city,
     country               |-> country,
     region                |-> region,
     short_description     |-> description,
     ideal_durations       |-> durations,
     budget_level          |-> budget,
     culture_score         |-> features[1],
     adventure_score       |-> features[2],
     nature_score          |-> features[3],
     beaches_score         |-> features[4],
     nightlife_score       |-> features[5],
     cuisine_score         |-> features[6],
     wellness_score        |-> features[7],
     urban_score           |-> features[8],
     seclusion_score       |-> features[9],
     description_embedding |-> "vector",   \* a vector of the model's dimension
     type                  |-> "destination"]

\* The documents of the stores: six destinations of the kind the CSV holds,
\* two with extreme feature scores and two that differ in id and city alone.
Docs ==
    [Tokyo |-> Destination("1", "Tokyo", "Japan", "Asia", "neon city of food and temples",
                           "Luxury", "7-10 days", <<90, 40, 30, 10, 85, 95, 50, 100, 5>>),
     Bali  |-> Destination("2", "bali", "Indonesia", "Asia", "beaches and rice terraces",
                           "Budget", "3-5 days", <<70, 60, 90, 95, 60, 70, 90, 30, 60>>),
     Paris |-> Destination("3", "Paris", "France", "Europe", "art, cafes and museums",
                           "Luxury", "3-5 days", <<100, 10, 20, 0, 70, 95, 40, 95, 5>>),
     Lima  |-> Destination("4", "Lima", "Peru", "South America",
                           "culinary capital by the ocean",
                           "Mid-Range", "1-2 weeks", <<70, 50, 40, 50, 60, 95, 30, 70, 10>>),
     Banff |-> Destination("5", "Banff", "Canada", "North America",
                           "peaks, lakes and trails",
                           "Mid-Range", "", <<20, 95, 100, 0, 10, 40, 60, 5, 90>>),
     Hanoi |-> Destination("6", "Hanoi", "Vietnam", "Asia", "street food and old quarters",
                           "Budget", "2-4 days", <<80, 40, 40, 10, 60, 95, 30, 70, 10>>),
     Nowhere    |-> Destination("9", "Nowhere", "Noland", "Asia", "nothing at all",
                                "Budget", "", <<0, 0, 0, 0, 0, 0, 0, 0, 0>>),
     Everywhere |-> Destination("10", "Everywhere", "Allland", "Europe", "all of it",
                                "Mid-Range", "7-10 days",
                                <<100, 100, 100, 100, 100, 100, 100, 100, 100>>),
     TwinA |-> Destination("7", "Porto", "Portugal", "Europe", "river, wine and tiles",
                           "Mid-Range", "3-5 days", <<80, 30, 40, 50, 60, 90, 30, 70, 10>>),
     TwinB |-> Destination("8", "Braga", "Portugal", "Europe", "river, wine and tiles",
                           "Mid-Range", "3-5 days", <<80, 30, 40, 50, 60, 90, 30, 70, 10>>)]

FoodiePersona == [traveler_types |-> <<"foodie">>, budget_style |-> "mid_range"]

\* a persona none of whose tags is a key of the static tables
NomadPersona ==
    [traveler_types       |-> <<"digital_nomad">>,
     budget_style         |-> "budget_conscious",
     travel_companions    |-> "solo",
     activity_preferences |-> <<"shopping">>]

\* the personas a run may have: the foodie, and a persona as
\* SimpleTravelPersona.to_dict writes it (the keys that are read)
Profiles ==
    {FoodiePersona,
     [traveler_types       |-> <<"adventure_seeker", "nature_lover", "wellness_guru">>,
      budget_style         |-> "luxury",
      travel_companions    |-> "couple",
      activity_preferences |-> <<"beaches", "food_wine">>]}

\* cosine similarities the embedding collaborator may report, in thousandths
SimMilli == {-250, 750}

\* collaborators that work, for the turns that call none
QuietEnv == [embed_ok |-> TRUE, store_ok |-> TRUE, llm_ok |-> TRUE,
             sim |-> <<>>, found |-> <<>>]

\* The similarity vectors tried for a store of n documents: the last document
\* gets one value of SimMilli, those before it another (or the same).
SimVectors(n) ==
    {[i \in 1..n |-> IF i <= t THEN a ELSE b] :
        t \in {0, n - 1}, a \in SimMilli, b \in SimMilli}

\* the behaviours of the embedding model and the store during get_recommendations:
\* the embedding fails, the query fails, or both work and report a similarity vector
RecommendEnvs(store) ==
    {[embed_ok |-> FALSE, store_ok |-> TRUE, llm_ok |-> TRUE, sim |-> <<>>, found |-> <<>>],
     [embed_ok |-> TRUE, store_ok |-> FALSE, llm_ok |-> TRUE, sim |-> <<>>, found |-> <<>>]}
    \cup {[embed_ok |-> TRUE, store_ok |-> TRUE, llm_ok |-> TRUE, sim |-> sm,
           found |-> <<>>] : sm \in SimVectors(Len(store))}

\* The behaviours of the store and the chat model during a destination
\* selection: no query is made when no name is detected; else the query fails,
\* or it returns one of the rows it may return and, when that is a document,
\* the chat model answers or fails.
SelectionEnvs(msg, store) ==
    IF ~Truthy(Detections[msg].selection) THEN {QuietEnv}
    ELSE {[embed_ok |-> TRUE, store_ok |-> FALSE, llm_ok |-> TRUE, sim |-> <<>>,
           found |-> <<>>]}
         \cup {[embed_ok |-> TRUE, store_ok |-> TRUE, llm_ok |-> l, sim |-> <<>>,
                found |-> f] :
                  l \in BOOLEAN,
                  f \in get_destination_by_name(Detections[msg].selection, store, TRUE)}

----------------------------------------------------------------------------
(* The trip-context flow of the chat page (app/main.py).

   process_user_message_with_context and the handlers it calls are in the
   sources.  TripContextManager (services/trip_context_manager.py), the trip
   context methods of the store (create_trip_context, update_trip_context,
   get_trip_context) and the itinerary method of the chat model service
   (_create_detailed_itinerary, create_response_with_context) are not; they
   are described here as the design document describes them: a TripContext
   holds destination, duration, dates, overrides and a confirmation step;
   extraction yields optional destination, duration and dates; the override
   detection yields an action, overrides and an optional follow-up text; the
   readiness predicate is "destination, duration and dates all present".
   What the extraction finds in an utterance is part of the utterance here. *)

\* the most trip contexts the store is let to hold
MaxTrips == 1

\* the most messages the chat history is let to hold
MaxHistory == 5

TripFields == {"destination", "duration", "dates"}

\* the trip context document create_trip_context stores
NewTripContext(base_profile, destination, duration, dates) ==
    [base_profile      |-> base_profile,
     destination       |-> destination,
     duration          |-> duration,
     dates             |-> dates,
     overrides         |-> EmptyDict,
     confirmation_step |-> "awaiting_confirmation"]

\* the store after create_trip_context has stored a document under trip_id
create_trip_context(contexts, trip_id, base_profile, destination, duration, dates) ==
    [t \in (DOMAIN contexts) \cup {trip_id} |->
        IF t = trip_id THEN NewTripContext(base_profile, destination, duration, dates)
        ELSE contexts[t]]

\* the store after update_trip_context(trip_id, updates)
update_trip_context(contexts, trip_id, updates) ==
    [t \in DOMAIN contexts |->
        IF t = trip_id
        THEN [k \in (DOMAIN contexts[t]) \cup (DOMAIN updates) |->
                 IF k \in DOMAIN updates THEN updates[k] ELSE contexts[t][k]]
        ELSE contexts[t]]

\* get_trip_context(trip_id): the document, None when there is none
get_trip_context(contexts, trip_id) ==
    IF trip_id \in DOMAIN contexts THEN contexts[trip_id] ELSE NoneVal

\* detect_trip_info(user_input): what the extraction finds in the utterance
detect_trip_info(u) == u.info

\* a trip intent: the utterance names a destination, a duration or dates
should_ask_for_confirmation(trip_info, profile) ==
    \E f \in TripFields : Truthy(DictGet(trip_info, f, NoneVal))

\* detect_override_intent(user_input): action, overrides and, for some
\* utterances, a follow-up text
detect_override_intent(u) ==
    IF u.follow_up = NoneVal
    THEN [action |-> u.action, overrides |-> u.overrides]
    ELSE [action |-> u.action, overrides |-> u.overrides, follow_up |-> u.follow_up]

\* the store after update_trip_with_new_info(trip_id, user_input): the fields
\* found in the utterance are filled in
update_trip_with_new_info(contexts, trip_id, u) ==
    update_trip_context(contexts, trip_id,
        [f \in {g \in TripFields : Truthy(detect_trip_info(u)[g])} |->
            detect_trip_info(u)[f]])

\* the fields of a trip context that are not filled
get_missing_info(context) ==
    {f \in TripFields : ~Truthy(DictGet(context, f, NoneVal))}

\* the readiness predicate
should_create_itinerary(context) == get_missing_info(context) = {}

\* a response of the chat page: its kind and, for a request for trip details,
\* the fields it asks for
PageReply(kind, asks) == [kind |-> kind, asks |-> asks]

generate_info_request(missing_info, context) == PageReply("info_request", missing_info)


\* The part of st.session_state the flow reads and writes, with the store's
\* trip contexts.
Session(trip_id, awaiting, contexts) ==
    [current_trip_id |-> trip_id, awaiting_confirmation |-> awaiting,
     trip_contexts |-> contexts]

\* What a handler of the page comes to: the session and the store it leaves,
\* the response it returns, whether it raised instead of returning (the
\* session then being as mutated so far), and the trip context an itinerary
\* was generated from, if one was.
PageOutcome(session, reply, error, generated) ==
    [session |-> session, response |-> reply, error |-> error, generated |-> generated]

Returned(session, reply) == PageOutcome(session, reply, FALSE, <<>>)

Raises(session) == PageOutcome(session, PageReply("None", {}), TRUE, <<>>)

\* bedrock_service._create_detailed_itinerary(updated_context, summary)
Itinerary(session, updated_context, env) ==
    IF env.fail_at = 5 THEN Raises(session)
    ELSE PageOutcome(session, PageReply("detailed_itinerary", {}), FALSE,
                     <<updated_context>>)

\* process_basic_message: the reply of bedrock_service.create_travel_plan
process_basic_message(session) == Returned(session, PageReply("process_basic_message", {}))

\* handle_new_trip_request; env.create is what create_trip_context does: it
\* stores the document and returns its id, returns nothing, or raises
handle_new_trip_request(trip_info, profile, session, env) ==
    LET trip_id == <<"trip-1", "trip-2", "trip-3", "trip-4">>[
                       Cardinality(DOMAIN session.trip_contexts) + 1]
    IN  IF env.create = "raises" THEN Raises(session)
        ELSE IF env.create = "stored"
        THEN Returned(Session(trip_id, TRUE,
                              create_trip_context(session.trip_contexts, trip_id, profile,
                                                  DictGet(trip_info, "destination", NoneVal),
                                                  DictGet(trip_info, "duration", NoneVal),
                                                  DictGet(trip_info, "dates", NoneVal))),
                      PageReply("profile_confirmation", {}))
        ELSE Returned(session, PageReply("tell_me_more", {}))

\* A variant of ConfirmationUpdates that writes the overrides in both branches.
\* C13_ConfirmationWritesStep tells it from ConfirmationUpdates.
ConfirmationUpdatesAlways(override_result) ==
    [overrides         |-> override_result["overrides"],
     confirmation_step |-> "details_gathering"]

\* the updates written by the branch taken for override_result
ConfirmationUpdates(override_result) ==
    IF override_result["action"] = "CREATE_TRIP_CONTEXT"
    THEN [overrides         |-> override_result["overrides"],
          confirmation_step |-> "details_gathering"]
    ELSE [confirmation_step |-> "details_gathering"]

\* The three store calls both branches make, from the session `session` the
\* branch starts them with: update_trip_context, update_trip_with_new_info,
\* get_trip_context.  env.fail_at names the call that raises (2, 3, 4).
StoreCalls(session, updates, u, env) ==
    LET trip_id == session.current_trip_id
        first   == update_trip_context(session.trip_contexts, trip_id, updates)
        second  == update_trip_with_new_info(first, trip_id, u)
    IN  IF env.fail_at = 2 THEN Raises(session)
        ELSE IF env.fail_at = 3
        THEN Raises(Session(trip_id, session.awaiting_confirmation, first))
        ELSE IF env.fail_at = 4
        THEN Raises(Session(trip_id, session.awaiting_confirmation, second))
        ELSE Returned(Session(trip_id, session.awaiting_confirmation, second),
                      PageReply("None", {}))

\* the CREATE_TRIP_CONTEXT branch once the store calls have returned; its last
\* line is override_result.get("follow_up", follow_up)
CreateBranchReply(session, override_result, updated_context, env) ==
    IF should_create_itinerary(updated_context)
    THEN Itinerary(Session(session.current_trip_id, FALSE, session.trip_contexts),
                   updated_context, env)
    ELSE Returned(session,
                  IF "follow_up" \in DOMAIN override_result
                  THEN PageReply("override_follow_up", {})
                  ELSE generate_info_request(get_missing_info(updated_context),
                                             updated_context))

\* the USE_PROFILE_DEFAULTS branch once the store calls have returned
DefaultsBranchReply(session, updated_context, env) ==
    IF should_create_itinerary(updated_context)
    THEN Itinerary(session, updated_context, env)
    ELSE Returned(session,
                  generate_info_request(get_missing_info(updated_context),
                                        updated_context))

\* the branch taken, from the store calls on; called is what they came to
ConfirmationBranch(called, override_result, env) ==
    IF called.error THEN called
    ELSE IF override_result["action"] = "CREATE_TRIP_CONTEXT"
    THEN CreateBranchReply(called.session, override_result,
                           get_trip_context(called.session.trip_contexts,
                                            called.session.current_trip_id), env)
    ELSE DefaultsBranchReply(called.session,
                             get_trip_context(called.session.trip_contexts,
                                              called.session.current_trip_id), env)

\* the session a branch makes its store calls with is the one it was called
\* with, but the defaults branch has cleared awaiting_confirmation by then
handle_profile_confirmation_response(u, session, env) ==
    ConfirmationBranch(StoreCalls(IF detect_override_intent(u)["action"]
                                        = "CREATE_TRIP_CONTEXT"
                                  THEN session
                                  ELSE Session(session.current_trip_id, FALSE,
                                               session.trip_contexts),
                                  ConfirmationUpdates(detect_override_intent(u)), u, env),
                       detect_override_intent(u), env)

\* the try block of process_user_message_with_context
ContextBody(u, profile, session, env) ==
    IF Truthy(session.current_trip_id) /\ env.fail_at = 1 THEN Raises(session)
    ELSE IF session.awaiting_confirmation
    THEN handle_profile_confirmation_response(u, session, env)
    ELSE IF should_ask_for_confirmation(detect_trip_info(u), profile)
    THEN handle_new_trip_request(detect_trip_info(u), profile, session, env)
    ELSE IF env.fail_at = 5 THEN Raises(session)
    ELSE Returned(session, PageReply("GENERAL_CHAT", {}))

\* the except clause: the basic reply, over the session as the try block left it
BasicOnError(body) ==
    IF body.error
    THEN PageOutcome(body.session, process_basic_message(body.session).response, TRUE,
                     body.generated)
    ELSE body

process_user_message_with_context(u, profile, session, manager, env) ==
    IF ~manager THEN process_basic_message(session)
    ELSE BasicOnError(ContextBody(u, profile, session, env))

----------------------------------------------------------------------------
(* Inputs of the trip-context flow and of a single scoring call *)

\* An utterance sent to the chat page: what the extraction finds in it, and
\* what the override detection makes of it (the defaults are confirmed, or
\* overrides are stated, with or without a follow-up text).
TripUtterances ==
    LET TripInfos == [destination : {NoneVal, "Paris"}, duration : {NoneVal, "3 days"},
                      dates : {NoneVal, "may"}]
    IN
    {[info |-> i, action |-> "USE_PROFILE_DEFAULTS", overrides |-> EmptyDict,
      follow_up |-> NoneVal] : i \in TripInfos}
    \cup {[info |-> i, action |-> "CREATE_TRIP_CONTEXT",
           overrides |-> [budget_style |-> "luxury"], follow_up |-> f] :
             i \in TripInfos, f \in {NoneVal, "What would you like to change?"}}

\* The collaborators' behaviour during one message: what create_trip_context
\* does, and which call raises (0: none; 1: the first get_trip_context;
\* 2: update_trip_context; 3: update_trip_with_new_info; 4: the second
\* get_trip_context; 5: the chat model).  These are the environments that
\* differ in effect for a message arriving in `session`.
PageEnvsFor(session, manager) ==
    LET PageEnvs == [create : {"stored", "falsy", "raises"}, fail_at : 0..5]
    IN
    IF ~manager THEN {[create |-> "stored", fail_at |-> 0]}
    ELSE IF session.awaiting_confirmation
    THEN {e \in PageEnvs : e.create = "stored"}
    ELSE {e \in PageEnvs : e.fail_at \in {0, 1, 5}
                           /\ (e.fail_at # 0 => e.create = "stored")}

\* trip_turn when no message has been handled since the page was (re)started
NoTurn(op) ==
    [op |-> op, utterance |-> <<>>, fail_at |-> 0, response |-> PageReply("None", {}),
     error |-> FALSE, generated |-> <<>>]

\* the chat page's variables while the page is not being modelled
SessionIdle ==
    /\ current_page = "login"
    /\ chat_history = 0
    /\ current_trip_id = NoneVal
    /\ awaiting_confirmation = FALSE
    /\ trip_contexts = EmptyDict
    /\ trip_manager = FALSE
    /\ trip_pre = Session(NoneVal, FALSE, EmptyDict)
    /\ trip_turn = NoTurn("start")
    /\ persona = <<>>
    /\ persona_doc = <<>>

\* the rows a scoring call may get from the store, in the order the query
\* returns them (the query has no ORDER BY); in one store a document holds an
\* embedding of another length than the model's
ScoreCorpora ==
    {<<Docs.TwinB, Docs.TwinA>>, <<Docs.TwinA, Docs.TwinB, Docs.Nowhere>>,
     <<Docs.Tokyo, [Docs.Nowhere EXCEPT !.description_embedding = "short_vector"],
       Docs.Bali>>,
     <<Docs.Everywhere, Docs.Nowhere, Docs.TwinA>>,
     <<Docs.Tokyo, Docs.Paris, Docs.Lima, Docs.Banff, Docs.Hanoi, Docs.Bali>>}

\* cosine similarities in thousandths, from -1 to 1
ScoreSims == {-1000, -250, 0, 500, 1000}

\* the variables of the single calls while no such call is being modelled
ScoreIdle ==
    /\ score_call = [trip_duration |-> NoneVal, preference_changes |-> NoneVal,
                     search_query |-> "", sim |-> <<>>, called |-> FALSE]
    /\ scored = [candidates |-> <<>>, returned |-> <<>>]
    /\ plan_call = [message |-> "", llm_ok |-> TRUE, called |-> FALSE,
                    reply |-> Reply("None", <<>>)]

----------------------------------------------------------------------------
(* The dialogue as a state machine: one turn per step *)

StateOf(state) == DictGet(state, "recommendation_state", "none")

\* The end-to-end scenario: the request for May, the reply "a week", the
\* confirmation of the usual preferences, by the foodie persona.
E2ENext(step, state, msg, profile) ==
    LET E2EUtterances == <<"recommend me places in May", "a week", "same as usual">>
    IN  IF profile # FoodiePersona THEN 0
        ELSE IF step < Len(E2EUtterances) /\ step > 0 /\ msg = E2EUtterances[step + 1]
        THEN step + 1
        ELSE IF StateOf(state) = "none" /\ msg = E2EUtterances[1] THEN 1
        ELSE 0

\* the dialogue's variables before the first turn
DialogueIdle ==
    /\ conversation_state = EmptyDict
    /\ response = Reply("None", <<>>)
    /\ message = ""
    /\ pre_state = EmptyDict
    /\ raised = "no"
    /\ rec_call = <<>>
    /\ selected = <<>>
    /\ repeats = 0
    /\ e2e_step = 0
    /\ conversations = <<>>

\* the store a run starts with is empty, or has fewer than TopN documents, or more
Init ==
    /\ DialogueIdle
    /\ user_profile \in Profiles
    /\ destinations \in
          {<<>>, <<Docs.Tokyo, Docs.Bali>>,
           <<Docs.Tokyo, Docs.Paris, Docs.Lima, Docs.Banff, Docs.Hanoi, Docs.Bali>>}
    /\ SessionIdle
    /\ ScoreIdle

\* handle_recommendation_flow(msg, user_profile, conversation_state), the caller
\* keeping the state that is returned
Turn(msg, env) ==
    \E out \in {handle_recommendation_flow(msg, user_profile, conversation_state,
                                           destinations, env)} :
        /\ conversation_state' = out.state
        /\ response' = out.response
        /\ message' = msg
        /\ pre_state' = conversation_state
        /\ raised' = out.raised
        /\ rec_call' = out.rec_call
        /\ selected' = out.selected
        /\ repeats' = IF out.response.kind = "ask_what_to_change"
                      THEN (IF repeats < MaxRepeats THEN repeats + 1 ELSE repeats)
                      ELSE 0
        /\ e2e_step' = E2ENext(e2e_step, conversation_state, msg, user_profile)
        /\ UNCHANGED <<user_profile, destinations, current_page, chat_history, current_trip_id,
                   awaiting_confirmation, trip_contexts, trip_manager, trip_pre, trip_turn,
                   persona, persona_doc, score_call, scored, plan_call, conversations>>

InitialTurn ==
    /\ StateOf(conversation_state) = "none"
    /\ \E msg \in Utterances : Turn(msg, QuietEnv)

DurationTurn ==
    /\ StateOf(conversation_state) = "waiting_duration"
    /\ \E msg \in Utterances : Turn(msg, QuietEnv)

\* the collaborators are consulted only on the branches that recommend
PreferenceTurn ==
    /\ StateOf(conversation_state) = "waiting_preferences"
    /\ \E msg \in Utterances :
          \E env \in IF Detections[msg].preference = "different" THEN {QuietEnv}
                     ELSE RecommendEnvs(destinations) :
             Turn(msg, env)

SelectionTurn ==
    /\ StateOf(conversation_state) = "showing_recommendations"
    /\ \E msg \in Utterances : \E env \in SelectionEnvs(msg, destinations) : Turn(msg, env)

Next == InitialTurn \/ DurationTurn \/ PreferenceTurn \/ SelectionTurn

Spec == Init /\ [][Next]_vars

----------------------------------------------------------------------------
(* The chat page as a state machine: one button or one message per step *)

\* The page hands the profile on unread (it becomes the base_profile of a new
\* trip context), so one profile stands for all.
TripInit ==
    /\ DialogueIdle
    /\ ScoreIdle
    /\ user_profile = FoodiePersona
    /\ destinations = <<>>
    /\ current_page = "login"
    /\ chat_history = 0
    /\ current_trip_id = NoneVal
    /\ awaiting_confirmation = FALSE
    /\ trip_contexts = EmptyDict
    /\ trip_manager \in BOOLEAN
    /\ trip_pre = Session(NoneVal, FALSE, EmptyDict)
    /\ trip_turn = NoTurn("start")
    /\ persona = <<>>
    /\ persona_doc = <<[type |-> "travel_persona", user_id |-> "user-1", name |-> "Ada",
                        traveler_types |-> <<"foodie">>, budget_style |-> "mid_range",
                        travel_companions |-> "solo", activity_preferences |-> <<>>,
                        completed |-> TRUE]>>

PageFrame ==
    UNCHANGED <<conversation_state, response, message, pre_state, raised, rec_call,
                selected, repeats, e2e_step, score_call, scored, plan_call,
                user_profile, destinations, trip_manager, persona_doc, conversations>>

\* SimpleTravelPersona.from_dict, the persona being written as the record of
\* its fields (the styles, the restrictions and the needs, which nothing
\* modelled here reads, and the creation time are left out)
from_dict(data) ==
    [user_id              |-> DictGet(data, "user_id", ""),
     name                 |-> DictGet(data, "name", ""),
     traveler_types       |-> DictGet(data, "traveler_types", <<>>),
     budget_style         |-> DictGet(data, "budget_style", ""),
     travel_companions    |-> DictGet(data, "travel_companions", ""),
     activity_preferences |-> DictGet(data, "activity_preferences", <<>>),
     completed            |-> DictGet(data, "completed", FALSE)]

\* show_login, for a user the store knows: with a completed persona document
\* the persona is loaded and the chat page follows, else the onboarding page
Login ==
    /\ current_page = "login"
    /\ IF persona_doc # <<>> /\ DictGet(persona_doc[1], "completed", FALSE)
       THEN /\ persona' = <<from_dict(persona_doc[1])>>
            /\ current_page' = "chat"
       ELSE /\ persona' = persona
            /\ current_page' = "onboarding"
    /\ trip_pre' = Session(current_trip_id, awaiting_confirmation, trip_contexts)
    /\ trip_turn' = NoTurn("login")
    /\ UNCHANGED <<chat_history, current_trip_id, awaiting_confirmation, trip_contexts>>
    /\ PageFrame

\* the "Clear Chat" button
ClearChat ==
    /\ current_page = "chat"
    /\ chat_history' = 0
    /\ current_trip_id' = NoneVal
    /\ awaiting_confirmation' = FALSE
    /\ trip_pre' = Session(current_trip_id, awaiting_confirmation, trip_contexts)
    /\ trip_turn' = NoTurn("clear_chat")
    /\ UNCHANGED <<current_page, trip_contexts, persona>>
    /\ PageFrame

\* the "Switch User" button
SwitchUser ==
    /\ current_page = "chat"
    /\ chat_history' = 0
    /\ current_trip_id' = NoneVal
    /\ awaiting_confirmation' = FALSE
    /\ current_page' = "login"
    /\ persona' = <<>>
    /\ trip_pre' = Session(current_trip_id, awaiting_confirmation, trip_contexts)
    /\ trip_turn' = NoTurn("switch_user")
    /\ UNCHANGED trip_contexts
    /\ PageFrame

\* The chat input of show_chat_interface: the two messages are appended to
\* the history and process_user_message_with_context answers.
SendMessage(u, env) ==
    \E out \in {process_user_message_with_context(
                    u, user_profile,
                    Session(current_trip_id, awaiting_confirmation, trip_contexts),
                    trip_manager, env)} :
        /\ current_trip_id' = out.session.current_trip_id
        /\ awaiting_confirmation' = out.session.awaiting_confirmation
        /\ trip_contexts' = out.session.trip_contexts
        /\ chat_history' = chat_history + 2
        /\ trip_pre' = Session(current_trip_id, awaiting_confirmation, trip_contexts)
        /\ trip_turn' = [op |-> "message", utterance |-> <<u>>, fail_at |-> env.fail_at,
                         response |-> out.response, error |-> out.error,
                         generated |-> out.generated]
        /\ UNCHANGED <<current_page, persona>>
        /\ PageFrame

\* a message while the profile confirmation is awaited
ConfirmationMessage ==
    /\ current_page = "chat"
    /\ chat_history < MaxHistory
    /\ trip_manager /\ awaiting_confirmation
    /\ \E u \in TripUtterances :
          \E env \in PageEnvsFor(Session(current_trip_id, awaiting_confirmation,
                                         trip_contexts), trip_manager) :
             SendMessage(u, env)

\* a message while no confirmation is awaited
TripMessage ==
    /\ current_page = "chat"
    /\ chat_history < MaxHistory
    /\ trip_manager /\ ~awaiting_confirmation
    /\ Cardinality(DOMAIN trip_contexts) < MaxTrips
    /\ \E u \in TripUtterances :
          \E env \in PageEnvsFor(Session(current_trip_id, awaiting_confirmation,
                                         trip_contexts), trip_manager) :
             SendMessage(u, env)

\* a message when there is no TripContextManager
BasicMessage ==
    /\ current_page = "chat"
    /\ chat_history < MaxHistory
    /\ ~trip_manager
    /\ \E u \in TripUtterances :
          SendMessage(u, [create |-> "stored", fail_at |-> 0])

TripNext ==
    Login \/ ClearChat \/ SwitchUser \/ ConfirmationMessage \/ TripMessage \/ BasicMessage

TripSpec == TripInit /\ [][TripNext]_vars

\* a message in a chat that has a current trip and awaits no confirmation:
\* the user goes on after the answer to the confirmation question
DetailsMessage ==
    /\ current_page = "chat"
    /\ chat_history < MaxHistory
    /\ trip_manager /\ ~awaiting_confirmation
    /\ current_trip_id # NoneVal
    /\ \E u \in TripUtterances :
          \E env \in PageEnvsFor(Session(current_trip_id, awaiting_confirmation,
                                         trip_contexts), trip_manager) :
             SendMessage(u, env)

\* one chat from the login on, with no button pressed: the trip request, the
\* answers to the confirmation question, and the messages that follow them
DetailsNext == Login \/ TripMessage \/ ConfirmationMessage \/ DetailsMessage

DetailsSpec == TripInit /\ [][DetailsNext]_vars

----------------------------------------------------------------------------
(* Signing in and creating the travel profile *)

\* "Please select up to 3 travel types only"
MaxTravelerTypes == 3

\* "Please select up to 5 activities only"
MaxActivities == 5

\* The "Create My Profile" button of show_onboarding.  The boxes ticked are
\* listed in the order of the form; trip_turn.utterance holds the form as it
\* was submitted.  With an error the form is shown again; else the persona is
\* constructed and, when save_persona_with_metadata stores it (the document is
\* persona.to_dict() with the metadata), placed in the session.
Onboard ==
    /\ current_page = "onboarding"
    /\ \E selected_types \in
             {<<>>, <<"foodie">>, <<"cultural_explorer", "foodie">>,
              <<"cultural_explorer", "adventure_seeker", "foodie">>,
              <<"cultural_explorer", "adventure_seeker", "foodie", "nature_lover">>},
          selected_activities \in
             {<<>>, <<"food_wine", "beaches">>,
              <<"museums_culture", "outdoor_adventure", "food_wine", "shopping",
                "nightlife">>,
              <<"museums_culture", "outdoor_adventure", "food_wine", "shopping",
                "nightlife", "beaches">>},
          budget_style \in {"budget_conscious", "mid_range", "luxury"},
          saved \in BOOLEAN :
        \E p \in {[user_id              |-> "user-1",
                    name                 |-> "Ada",
                    traveler_types       |-> selected_types,
                    budget_style         |-> budget_style,
                    travel_companions    |-> "solo",
                    activity_preferences |-> selected_activities,
                    completed            |-> TRUE]} :
          IF \/ Len(selected_types) = 0
             \/ Len(selected_types) > MaxTravelerTypes
             \/ Len(selected_activities) > MaxActivities
          THEN /\ trip_turn' = [NoTurn("profile_rejected") EXCEPT
                                   !.utterance = <<selected_types, selected_activities>>]
               /\ UNCHANGED <<persona, persona_doc, current_page>>
          ELSE IF saved
          THEN /\ trip_turn' = [NoTurn("profile_created") EXCEPT
                                   !.utterance = <<selected_types, selected_activities>>]
               /\ persona' = <<p>>
               /\ persona_doc' = <<DictPut(p, "type", "travel_persona")>>
               /\ current_page' = "chat"
          ELSE /\ trip_turn' = [NoTurn("profile_not_saved") EXCEPT
                                   !.utterance = <<selected_types, selected_activities>>]
               /\ UNCHANGED <<persona, persona_doc, current_page>>
    /\ UNCHANGED <<conversation_state, response, message, pre_state, raised, rec_call,
                   selected, repeats, e2e_step, user_profile, destinations,
                   chat_history, current_trip_id, awaiting_confirmation, trip_contexts,
                   trip_manager, trip_pre, score_call, scored, plan_call,
                   conversations>>

\* The store holds no persona document for the user, or one that is not
\* completed, or a completed one; save_persona stores the dict it is given
\* as it is, so a document may list more types or activities than the form
\* accepts.
PersonaInit ==
    /\ DialogueIdle
    /\ ScoreIdle
    /\ user_profile = FoodiePersona
    /\ destinations = <<>>
    /\ current_page = "login"
    /\ chat_history = 0
    /\ current_trip_id = NoneVal
    /\ awaiting_confirmation = FALSE
    /\ trip_contexts = EmptyDict
    /\ trip_manager = FALSE
    /\ trip_pre = Session(NoneVal, FALSE, EmptyDict)
    /\ trip_turn = NoTurn("start")
    /\ persona = <<>>
    /\ persona_doc \in
          {<<>>}
          \cup {<<[type |-> "travel_persona", user_id |-> "user-1", name |-> "Ada",
                   traveler_types |-> t, budget_style |-> "mid_range",
                   travel_companions |-> "solo", activity_preferences |-> a,
                   completed |-> c]>> :
                  t \in {<<"foodie">>,
                         <<"cultural_explorer", "adventure_seeker", "luxury_traveler",
                           "foodie">>},
                  a \in {<<"food_wine">>,
                         <<"museums_culture", "outdoor_adventure", "food_wine",
                           "beaches", "nightlife", "wellness_spa">>},
                  c \in BOOLEAN}

PersonaNext == Login \/ Onboard \/ SwitchUser

PersonaSpec == PersonaInit /\ [][PersonaNext]_vars

----------------------------------------------------------------------------
(* One call of get_recommendations, on rows and similarities of every kind, *)
(* or one call of create_travel_plan, on messages of every route            *)

ScoreInit ==
    /\ DialogueIdle
    /\ SessionIdle
    /\ ScoreIdle
    /\ user_profile \in Profiles \cup {NomadPersona}
    /\ destinations \in ScoreCorpora

\* get_recommendations(user_profile, trip_duration = d, preference_changes = pc)
\* over the rows of the store, the embedding model and the store both
\* answering; score_call.search_query is the query it embeds.  The similarity
\* vectors tried are every vector over ScoreSims for a short store, those of
\* SimVectors for a longer one; scored.candidates is the scoring loop alone:
\* the scored rows in the order of the store, before the sort.
ScoreCall ==
    /\ ~score_call.called /\ ~plan_call.called
    /\ \E d \in {NoneVal, "short", "long", "weekend"} :
       \E pc \in {NoneVal, "somewhere quiet"} :
       \E sm \in (IF Len(destinations) <= 3
                  THEN [1..Len(destinations) -> ScoreSims]
                  ELSE SimVectors(Len(destinations))) :
        /\ score_call' = [trip_duration |-> d, preference_changes |-> pc,
                          search_query |-> create_search_query(user_profile, pc),
                          sim |-> sm, called |-> TRUE]
        /\ scored' = [candidates |-> [n \in 1..Len(destinations) |->
                                         ScoreDestination(user_profile, d,
                                                          destinations[n], sm[n])],
                      returned   |-> get_recommendations(
                                        user_profile, NoneVal, d, pc, destinations,
                                        [embed_ok |-> TRUE, store_ok |-> TRUE,
                                         llm_ok |-> TRUE, sim |-> sm, found |-> <<>>])]
        /\ UNCHANGED <<conversation_state, response, message, pre_state, raised, rec_call,
                   selected, repeats, e2e_step,
                   current_page, chat_history, current_trip_id,
                   awaiting_confirmation, trip_contexts, trip_manager, trip_pre, trip_turn,
                   user_profile, destinations, plan_call, persona, persona_doc,
                   conversations>>

\* create_travel_plan(u, persona_summary) called on its own, as
\* process_basic_message calls it, the chat model answering or raising.  The
\* messages are routed to each of the five methods; among those with a lead-in
\* phrase are messages with one, two and more words after it, with none, with
\* two lead-in phrases, and with day counts below, at and above the cap,
\* written with and without a blank, and with no day count.
PlanCall ==
    /\ ~plan_call.called /\ ~score_call.called
    /\ \E u \in {"Hello there", "can you suggest a place", "what is the weather like",
                  "I want to visit Lisbon", "is it worth a visit",
                  "I want to go to New York City for 5 days",
                  "plan a trip to Rome for 10 days", "travel to Peru 14days",
                  "let us visit Paris for 2 weeks", "a weekend trip to Goa",
                  "we will visit Rome then go to Oslo for 7 days",
                  "trip to Fiji for 1 day or 2 days"} :
       \E ok \in BOOLEAN :
        /\ plan_call' = [message |-> u, llm_ok |-> ok, called |-> TRUE,
                         reply |-> create_travel_plan(u, ok)]
        /\ UNCHANGED <<conversation_state, response, message, pre_state, raised, rec_call,
                   selected, repeats, e2e_step,
                   current_page, chat_history, current_trip_id,
                   awaiting_confirmation, trip_contexts, trip_manager, trip_pre, trip_turn,
                   user_profile, destinations, score_call, scored, persona,
                   persona_doc, conversations>>

ScoreNext == ScoreCall \/ PlanCall

ScoreSpec == ScoreInit /\ [][ScoreNext]_vars

----------------------------------------------------------------------------
(* Two conversations through one SimpleConversationHandler.

   __init__ stores the two services on the handler and nothing else, and
   handle_recommendation_flow works on the conversation_state dict it is
   passed: the caller of each conversation holds that conversation's dict
   and hands it back with the next utterance.  A step is one whole call of
   handle_recommendation_flow for one of the two conversations, in any order. *)

\* Longest conversation followed, in turns.
MaxPairTurns == 2

PairUtterances == {"suggest a weekend trip in june", "same as usual", "bali"}

PairStore == <<Docs.Tokyo, Docs.Bali>>

\* The conversation state a conversation reaches when its turns are run alone.
RECURSIVE SoloState(_, _)
SoloState(profile, turns) ==
    IF turns = <<>> THEN EmptyDict
    ELSE handle_recommendation_flow(turns[Len(turns)].msg, profile,
                                    SoloState(profile, SubSeq(turns, 1, Len(turns) - 1)),
                                    PairStore, turns[Len(turns)].env).state

\* a handler that kept the conversation state in a slot of its own would hand
\* every caller the state of the first conversation
PairTurnSharing(c) ==
    /\ Len(conversations[c].turns) < MaxPairTurns
    /\ \E msg \in PairUtterances :
         \E env \in IF StateOf(conversations["A"].state) = "waiting_preferences"
                    THEN {e \in RecommendEnvs(PairStore) : e.sim \in {<<>>, <<750, -250>>}}
                    ELSE IF StateOf(conversations["A"].state) = "showing_recommendations"
                    THEN SelectionEnvs(msg, PairStore)
                    ELSE {QuietEnv} :
           \E out \in {handle_recommendation_flow(msg, conversations[c].profile,
                                                  conversations["A"].state,
                                                  PairStore, env)} :
              conversations' =
                  [conversations EXCEPT
                      ![c] = [profile |-> @.profile,
                              state   |-> out.state,
                              turns   |-> Append(@.turns, [msg |-> msg, env |-> env])]]
    /\ UNCHANGED <<conversation_state, response, message, pre_state, raised, rec_call,
                   selected, repeats, e2e_step, user_profile, destinations,
                   current_page, chat_history, current_trip_id, awaiting_confirmation,
                   trip_contexts, trip_manager, trip_pre, trip_turn, persona,
                   persona_doc, score_call, scored, plan_call>>

\* one turn of conversation c: the handler is given c's profile and c's dict
PairTurn(c) ==
    /\ Len(conversations[c].turns) < MaxPairTurns
    /\ \E msg \in PairUtterances :
         \E env \in IF StateOf(conversations[c].state) = "waiting_preferences"
                    THEN {e \in RecommendEnvs(PairStore) : e.sim \in {<<>>, <<750, -250>>}}
                    ELSE IF StateOf(conversations[c].state) = "showing_recommendations"
                    THEN SelectionEnvs(msg, PairStore)
                    ELSE {QuietEnv} :
           \E out \in {handle_recommendation_flow(msg, conversations[c].profile,
                                                  conversations[c].state,
                                                  PairStore, env)} :
              conversations' =
                  [conversations EXCEPT
                      ![c] = [profile |-> @.profile,
                              state   |-> out.state,
                              turns   |-> Append(@.turns, [msg |-> msg, env |-> env])]]
    /\ UNCHANGED <<conversation_state, response, message, pre_state, raised, rec_call,
                   selected, repeats, e2e_step, user_profile, destinations,
                   current_page, chat_history, current_trip_id, awaiting_confirmation,
                   trip_contexts, trip_manager, trip_pre, trip_turn, persona,
                   persona_doc, score_call, scored, plan_call>>

PairInit ==
    /\ conversations =
          [c \in {"A", "B"} |->
              [profile |-> IF c = "A" THEN FoodiePersona ELSE NomadPersona,
               state   |-> EmptyDict,
               turns   |-> <<>>]]
    /\ conversation_state = EmptyDict
    /\ response = Reply("None", <<>>)
    /\ message = ""
    /\ pre_state = EmptyDict
    /\ raised = "no"
    /\ rec_call = <<>>
    /\ selected = <<>>
    /\ repeats = 0
    /\ e2e_step = 0
    /\ user_profile = FoodiePersona
    /\ destinations = PairStore
    /\ SessionIdle
    /\ ScoreIdle

PairNext == PairTurn("A") \/ PairTurn("B")

PairSpec == PairInit /\ [][PairNext]_vars

----------------------------------------------------------------------------
(* Properties of the dialogue.  message is the utterance of the last turn,
   pre_state the conversation state that turn was given, conversation_state
   and response what it returned; message = "" before the first turn. *)

\* C1 (as stated; the code departs from it): after a turn taken in
\* 'showing_recommendations', if a destination was resolved then
\* recommendation_state is 'none' and the response is an itinerary for it;
\* if none was detected or found, the response asks again for a selection and
\* recommendation_state is still 'showing_recommendations'.
C1_ResolvedReturnsItinerary ==
    (message # "" /\ StateOf(pre_state) = "showing_recommendations") =>
        IF selected # <<>>
        THEN /\ StateOf(conversation_state) = "none"
             /\ response.kind \in {"create_detailed_itinerary", "itinerary_difficulties"}
        ELSE /\ StateOf(conversation_state) = "showing_recommendations"
             /\ response.kind \in {"ask_selection", "not_found"}

\* C2: after a turn taken in state 'none' on an utterance with no
\* recommendation keyword, the response is None and the conversation state is
\* the state the turn was given, field for field.
C2_NoKeywordNotHandled ==
    (/\ message # ""
     /\ StateOf(pre_state) = "none"
     /\ ~ContainsAny(StrLower(message), recommend_keywords)) =>
        /\ response.kind = "None"
        /\ conversation_state = pre_state

\* a declined turn on a state that carries the fields of an earlier dialogue
C2_Witness ==
    /\ message = "i want more adventure"
    /\ StateOf(pre_state) = "none"
    /\ "current_recommendations" \in DOMAIN pre_state
    /\ response.kind = "None"
    /\ conversation_state = pre_state

\* C3: after a turn taken in state 'none' on an utterance with a recommendation
\* keyword and no duration keyword, recommendation_state is 'waiting_duration',
\* detected_month is the month named in the utterance (None if it names none),
\* no duration is stored, and the response is the trip-length question.
C3_RequestAsksDuration ==
    (/\ message # ""
     /\ StateOf(pre_state) = "none"
     /\ ContainsAny(StrLower(message), recommend_keywords)
     /\ ~ContainsAny(StrLower(message), duration_hints)) =>
        /\ StateOf(conversation_state) = "waiting_duration"
        /\ DictGet(conversation_state, "detected_month", "absent")
              = FirstMatch(StrLower(message), months)
        /\ message = "recommend me places in May" =>
              conversation_state["detected_month"] = "may"
        /\ message = "recommend me somewhere" =>
              conversation_state["detected_month"] = NoneVal
        /\ DictGet(conversation_state, "detected_duration", "absent") = NoneVal
        /\ response.kind = "ask_duration"

\* the request for May, made in state 'none' after an earlier dialogue
C3_Witness ==
    /\ message = "recommend me places in May"
    /\ StateOf(pre_state) = "none"
    /\ pre_state # EmptyDict
    /\ StateOf(conversation_state) = "waiting_duration"
    /\ DictGet(conversation_state, "detected_month", "absent") = "may"
    /\ response.kind = "ask_duration"

\* C4: after a turn taken in 'waiting_duration' on an utterance with neither a
\* short nor a long keyword, the response is the trip-length question again,
\* the state is unchanged (so recommendation_state, detected_month and
\* detected_duration are), and no duration bucket is stored.
C4_UnrecognizedDurationReasks ==
    (/\ message # ""
     /\ StateOf(pre_state) = "waiting_duration"
     /\ ~ContainsAny(StrLower(message), short_words)
     /\ ~ContainsAny(StrLower(message), long_words)) =>
        /\ response.kind = "reask_duration"
        /\ conversation_state = pre_state
        /\ StateOf(conversation_state) = "waiting_duration"
        /\ DictGet(conversation_state, "detected_duration", NoneVal) = NoneVal

\* an unrecognized reply while the month of the request is remembered
C4_Witness ==
    /\ message = "bali"
    /\ StateOf(pre_state) = "waiting_duration"
    /\ DictGet(pre_state, "detected_month", NoneVal) = "may"
    /\ response.kind = "reask_duration"
    /\ conversation_state = pre_state

\* C5: after a turn taken in 'waiting_duration' on an utterance with a short
\* keyword, recommendation_state is 'waiting_preferences', detected_duration is
\* 'short', detected_month is what it was, and the response is the preference
\* confirmation.
C5_ShortKeywordToPreferences ==
    (/\ message # ""
     /\ StateOf(pre_state) = "waiting_duration"
     /\ ContainsAny(StrLower(message), short_words)) =>
        /\ StateOf(conversation_state) = "waiting_preferences"
        /\ DictGet(conversation_state, "detected_duration", NoneVal) = "short"
        /\ DictGet(conversation_state, "detected_month", "absent")
              = DictGet(pre_state, "detected_month", "absent")
        /\ response.kind = "preference_confirmation"

\* "just a weekend" answered to the request for May
C5_Witness ==
    /\ message = "just a weekend"
    /\ StateOf(pre_state) = "waiting_duration"
    /\ StateOf(conversation_state) = "waiting_preferences"
    /\ DictGet(conversation_state, "detected_duration", NoneVal) = "short"
    /\ DictGet(conversation_state, "detected_month", NoneVal) = "may"
    /\ response.kind = "preference_confirmation"

\* C6: after a turn taken in 'waiting_preferences' on an utterance with a
\* want-different keyword and no confirm-defaults keyword, the response asks
\* what to change, get_recommendations was not called, and the state is the
\* one the turn was given, still 'waiting_preferences'; however many such
\* turns follow one another, the conversation is in 'waiting_preferences'.
C6_DifferentAsksWhatToChange ==
    /\ (/\ message # ""
        /\ StateOf(pre_state) = "waiting_preferences"
        /\ ContainsAny(StrLower(message), different_keywords)
        /\ ~ContainsAny(StrLower(message), same_keywords)) =>
           /\ response.kind = "ask_what_to_change"
           /\ rec_call = <<>>
           /\ StateOf(conversation_state) = "waiting_preferences"
           /\ conversation_state = pre_state
    /\ repeats > 0 =>
           /\ StateOf(conversation_state) = "waiting_preferences"
           /\ response.kind = "ask_what_to_change"

\* MaxRepeats turns in a row have asked what to change
C6_Witness ==
    /\ repeats = MaxRepeats
    /\ message = "something different"
    /\ StateOf(pre_state) = "waiting_preferences"
    /\ StateOf(conversation_state) = "waiting_preferences"
    /\ response.kind = "ask_what_to_change"

\* C7: after a turn taken in 'waiting_preferences' on an utterance with neither
\* a confirm-defaults nor a want-different keyword, the response is the list
\* introduced by the utterance (no error, no question about what was meant),
\* get_recommendations was called once with preference_changes equal to the
\* utterance, which opens the search query as it was typed, recommendation_state
\* is 'showing_recommendations', and current_recommendations is the list that
\* was formatted into the response.
C7_FreeTextIsOverride ==
    (/\ message # ""
     /\ StateOf(pre_state) = "waiting_preferences"
     /\ ~ContainsAny(StrLower(message), same_keywords)
     /\ ~ContainsAny(StrLower(message), different_keywords)) =>
        /\ response.kind = "override_recommendations"
        /\ response.args[1] = message
        /\ Len(rec_call) = 1
        /\ rec_call[1].preference_changes = message
        /\ SubSeq(rec_call[1].search_query, 1, Len(message)) = message
        /\ StateOf(conversation_state) = "showing_recommendations"
        /\ "current_recommendations" \in DOMAIN conversation_state
        /\ response.args[2]
              = format_recommendations(conversation_state["current_recommendations"])

\* a free-text reply with a capital letter, answered with TopN destinations
C7_Witness ==
    /\ message = "tell me about Tokyo"
    /\ StateOf(pre_state) = "waiting_preferences"
    /\ raised = "no"
    /\ StateOf(conversation_state) = "showing_recommendations"
    /\ Len(conversation_state["current_recommendations"]) = TopN
    /\ response.kind = "override_recommendations"

C9_SelectedFromShownList ==
    (/\ message # ""
     /\ StateOf(pre_state) = "showing_recommendations"
     /\ selected # <<>>) =>
        \E n \in 1..Len(pre_state["current_recommendations"]) :
            pre_state["current_recommendations"][n]["destination_id"]
               = selected[1]["destination_id"]

\* C10 (as stated; the code departs from it): after a turn during which an
\* exception was raised, whether it was caught by handle_recommendation_flow
\* or inside a method it called, a response text was returned and
\* recommendation_state is 'none'.
C10_ExceptionResetsState ==
    (message # "" /\ raised # "no") =>
        /\ response.kind # "None"
        /\ StateOf(conversation_state) = "none"

----------------------------------------------------------------------------
(* Properties of the trip-context flow.  trip_turn describes the last step
   of the page, trip_pre the session flags and the store before it. *)

\* C11 (as stated; the code departs from it): after a message during which
\* an error occurred, the stored trip contexts are what they were before the
\* message, and awaiting_confirmation and current_trip_id are either what
\* they were before it or reset (no current trip, not awaiting).
C11_ErrorRestoresPriorState ==
    (trip_turn.op = "message" /\ trip_turn.error) =>
        /\ trip_contexts = trip_pre.trip_contexts
        /\ \/ /\ current_trip_id = trip_pre.current_trip_id
              /\ awaiting_confirmation = trip_pre.awaiting_confirmation
           \/ /\ current_trip_id = NoneVal
              /\ awaiting_confirmation = FALSE

\* C13: after a reply to the profile confirmation whose update_trip_context
\* call returned, the confirmation_step of the current trip context is
\* 'details_gathering'; its overrides are those detected in the reply if the
\* action was CREATE_TRIP_CONTEXT, and what they were before the reply if it
\* was USE_PROFILE_DEFAULTS.
C13_ConfirmationWritesStep ==
    (/\ trip_turn.op = "message"
     /\ trip_pre.awaiting_confirmation
     /\ trip_turn.fail_at \notin {1, 2}) =>
        /\ trip_contexts[trip_pre.current_trip_id]["confirmation_step"]
              = "details_gathering"
        /\ IF trip_turn.utterance[1].action = "CREATE_TRIP_CONTEXT"
           THEN trip_contexts[trip_pre.current_trip_id]["overrides"]
                   = trip_turn.utterance[1].overrides
           ELSE trip_contexts[trip_pre.current_trip_id]["overrides"]
                   = trip_pre.trip_contexts[trip_pre.current_trip_id]["overrides"]

\* overrides stated in the first reply to the confirmation question
C13_Witness ==
    /\ trip_turn.op = "message"
    /\ trip_pre.awaiting_confirmation
    /\ ~trip_turn.error
    /\ trip_turn.utterance[1].action = "CREATE_TRIP_CONTEXT"
    /\ trip_pre.trip_contexts[trip_pre.current_trip_id]["confirmation_step"]
          = "awaiting_confirmation"
    /\ trip_pre.trip_contexts[trip_pre.current_trip_id]["overrides"] = EmptyDict
    /\ trip_contexts[trip_pre.current_trip_id]["overrides"] = [budget_style |-> "luxury"]
    /\ trip_contexts[trip_pre.current_trip_id]["confirmation_step"] = "details_gathering"

\* C14 (as stated; the code departs from it): an itinerary is generated only
\* from a trip context with destination, duration and dates all filled, and
\* the stored confirmation_step of that trip is then 'ready'; a reply that
\* leaves one of the three missing generates no itinerary.
C14_ReadinessGatesItinerary ==
    /\ trip_turn.generated # <<>> =>
          /\ \A f \in TripFields : Truthy(trip_turn.generated[1][f])
          /\ trip_contexts[current_trip_id]["confirmation_step"] = "ready"
    /\ (/\ trip_turn.op = "message"
        /\ trip_pre.awaiting_confirmation
        /\ \E f \in TripFields : ~Truthy(trip_contexts[trip_pre.current_trip_id][f])) =>
          /\ trip_turn.generated = <<>>
          /\ trip_turn.response.kind # "detailed_itinerary"

\* C15 (as stated; the code departs from it): a reply to the profile
\* confirmation that is handled without error and leaves the trip context
\* short of a field is answered by the request for exactly the fields that
\* are missing from the trip context, whichever the detected action.
C15_AsksExactlyMissingFields ==
    (/\ trip_turn.op = "message"
     /\ trip_pre.awaiting_confirmation
     /\ ~trip_turn.error
     /\ trip_turn.generated = <<>>) =>
        /\ trip_turn.response.kind = "info_request"
        /\ trip_turn.response.asks
              = {f \in TripFields : ~Truthy(trip_contexts[trip_pre.current_trip_id][f])}
        /\ trip_turn.response.asks # {}

\* C16 (as stated; the code departs from it): a message answered by the
\* profile confirmation has created a trip context, which is the current
\* trip; after "Clear Chat", after "Switch User" and after a message that
\* produced an itinerary there is no current trip and no confirmation is
\* awaited.
C16_TripLifecycle ==
    /\ (trip_turn.op = "message" /\ trip_turn.response.kind = "profile_confirmation") =>
          /\ current_trip_id \in (DOMAIN trip_contexts) \ (DOMAIN trip_pre.trip_contexts)
          /\ awaiting_confirmation
    /\ trip_turn.op \in {"clear_chat", "switch_user"} =>
          /\ current_trip_id = NoneVal
          /\ ~awaiting_confirmation
    /\ trip_turn.generated # <<>> =>
          /\ current_trip_id = NoneVal
          /\ ~awaiting_confirmation

----------------------------------------------------------------------------
(* Properties of the scores.  scored.candidates are the scored rows of the
   last call in the order of the store, scored.returned the list returned;
   scores are in units of 1/Scale. *)

\* C17 (as stated; the code departs from it): the combined_score of every
\* scored destination is between 0 and 1.
C17_CombinedScoreInUnitInterval ==
    \A n \in 1..Len(scored.candidates) :
        /\ scored.candidates[n]["combined_score"] >= 0
        /\ scored.candidates[n]["combined_score"] <= Scale

\* C18: the combined_score of every scored destination is 0.5 of its
\* similarity, 0.3 of its activity, 0.15 of its budget and 0.05 of its
\* duration score (10, 6, 3 and 1 twentieths, each sub-score being a whole
\* number of twentieths), and of two destinations
\* scored in one call, one that is at least as high in each of the four
\* sub-scores is at least as high in combined_score.
C18_LinearBlendMonotone ==
    /\ \A n \in 1..Len(scored.candidates) :
          /\ \A k \in {"similarity_score", "activity_score", "budget_score",
                        "duration_score"} : scored.candidates[n][k] % 20 = 0
          /\ scored.candidates[n]["combined_score"]
                = 10 * (scored.candidates[n]["similarity_score"] \div 20)
                  + 6 * (scored.candidates[n]["activity_score"] \div 20)
                  + 3 * (scored.candidates[n]["budget_score"] \div 20)
                  + 1 * (scored.candidates[n]["duration_score"] \div 20)
    /\ \A m, n \in 1..Len(scored.candidates) :
          (\A k \in {"similarity_score", "activity_score", "budget_score",
                     "duration_score"} :
              scored.candidates[m][k] >= scored.candidates[n][k])
          => scored.candidates[m]["combined_score"]
                >= scored.candidates[n]["combined_score"]

\* two destinations that differ in the similarity alone, and one that differs
\* from another in the duration score
C18_Witness ==
    /\ score_call.called
    /\ Len(scored.candidates) = 3
    /\ scored.candidates[1]["similarity_score"] > scored.candidates[2]["similarity_score"]
    /\ \A k \in {"activity_score", "budget_score", "duration_score"} :
          scored.candidates[1][k] = scored.candidates[2][k]
    /\ scored.candidates[1]["combined_score"] > scored.candidates[2]["combined_score"]
    /\ scored.candidates[1]["duration_score"] > scored.candidates[3]["duration_score"]

\* C19 (as stated; the code departs from it): a scored destination whose
\* similarity is negative has the combined_score it would have with
\* similarity 0.
C19_NegativeSimilarityCountsAsZero ==
    \A n \in 1..Len(scored.candidates) :
        scored.candidates[n]["similarity_score"] < 0 =>
            scored.candidates[n]["combined_score"]
               = 6 * (scored.candidates[n]["activity_score"] \div 20)
                 + 3 * (scored.candidates[n]["budget_score"] \div 20)
                 + 1 * (scored.candidates[n]["duration_score"] \div 20)

\* C20 (as stated; the code departs from it): the list returned holds
\* min(TopN, n) of the n scored destinations, highest combined_score first,
\* none left out that scores higher than one returned, and of the two
\* destinations with identical sub-scores (ids "7" and "8") the one with id
\* "7" comes first whenever their combined_score is equal.
C20_RankedWithIdTieBreak ==
    score_call.called =>
        /\ Len(scored.returned)
              = IF Len(scored.candidates) < TopN THEN Len(scored.candidates) ELSE TopN
        /\ \A i \in 1..Len(scored.returned) :
              \E n \in 1..Len(scored.candidates) : scored.returned[i] = scored.candidates[n]
        /\ \A i, j \in 1..Len(scored.returned) :
              i < j => scored.returned[i]["combined_score"]
                          >= scored.returned[j]["combined_score"]
        /\ \A n \in 1..Len(scored.candidates) :
              \/ \E i \in 1..Len(scored.returned) : scored.returned[i] = scored.candidates[n]
              \/ \A i \in 1..Len(scored.returned) :
                    scored.returned[i]["combined_score"]
                       >= scored.candidates[n]["combined_score"]
        /\ \A i, j \in 1..Len(scored.returned) :
              (/\ scored.returned[i]["destination_id"] = "8"
               /\ scored.returned[j]["destination_id"] = "7"
               /\ scored.returned[i]["combined_score"]
                     = scored.returned[j]["combined_score"])
              => j < i

\* C21: when the embedding step fails or the store cannot be queried during
\* get_recommendations, no exception leaves it (the turn ends without the
\* handler's error reply), the list it returns is empty, and the reply that is
\* formatted for that list is the clarifying question, never a list of
\* destinations.
C21_FailureYieldsQuestion ==
    (Len(rec_call) = 1 /\ (~rec_call[1].embed_ok \/ ~rec_call[1].store_ok)) =>
        /\ raised = "inside"
        /\ response.kind # "error_apology"
        /\ conversation_state["current_recommendations"] = <<>>
        /\ LET formatted == IF response.kind = "override_recommendations"
                            THEN response.args[2] ELSE response
           IN  /\ formatted.kind = "no_match_question"
               /\ formatted.args = <<>>

\* the store holds documents and cannot be queried during a recommending turn
C21_Witness ==
    /\ Len(rec_call) = 1
    /\ rec_call[1].embed_ok /\ ~rec_call[1].store_ok
    /\ Len(destinations) > TopN
    /\ response.kind = "no_match_question"

\* C22: the activity score of every scored row is the sum of the feature
\* scores its persona's traveler types and activity preferences map to, over
\* 100 times their number; it is exactly 0 when no tag maps to a feature, and
\* it lies between 0 and 1.  (Scores are in units of 1/Scale; the foodie maps
\* to the cuisine score alone, the couple to eight features, the nomad to none.)
C22_ActivityMatchIsAverage ==
    score_call.called =>
        \A n \in 1..Len(scored.candidates) :
            LET row   == scored.candidates[n]
                tags  == user_profile["traveler_types"]
                acts  == DictGet(user_profile, "activity_preferences", <<>>)
                keys  == MappedKeys(tags, preference_mappings)
                         \o MappedKeys(acts, activity_mappings)
            IN  /\ 0 <= row["activity_score"] /\ row["activity_score"] <= Scale
                /\ (keys = <<>>) => row["activity_score"] = 0
                /\ (keys # <<>>) =>
                      row["activity_score"]
                         = SumScores(keys, row) * (Scale \div (100 * Len(keys)))
                /\ (user_profile = FoodiePersona) =>
                      row["activity_score"] = row["cuisine_score"] * (Scale \div 100)
                /\ (user_profile = NomadPersona) => row["activity_score"] = 0
                /\ (user_profile \notin {FoodiePersona, NomadPersona}) =>
                      row["activity_score"]
                         = (row["adventure_score"] + row["nature_score"]
                            + row["nature_score"] + row["seclusion_score"]
                            + row["wellness_score"] + row["seclusion_score"]
                            + row["beaches_score"] + row["cuisine_score"])
                           * (Scale \div 800)

\* a call for the persona whose tags map to nothing, over a row whose
\* feature scores are all 100
C22_Witness ==
    /\ score_call.called
    /\ user_profile = NomadPersona
    /\ \E n \in 1..Len(scored.candidates) :
          /\ scored.candidates[n]["cuisine_score"] = 100
          /\ scored.candidates[n]["activity_score"] = 0

\* C23: the budget score of a scored row depends on the user's budget tier and
\* the destination's tier alone and lies in [0,1]; it is 1 when the tiers are
\* equal and below 1 when they are one tier apart, and of two rows of one call
\* the one two tiers from the user scores below the one a single tier from the
\* user; a Budget destination scores 1 for a budget_conscious user, and for a
\* luxury user it scores below a Luxury destination.  (The tiers are numbered
\* 1 to 3 from the cheapest, a row's distance being the difference.)
C23_BudgetTable ==
    score_call.called =>
        LET user == CASE user_profile["budget_style"] = "budget_conscious" -> 1
                      [] user_profile["budget_style"] = "mid_range" -> 2
                      [] user_profile["budget_style"] = "luxury" -> 3
            tier(row) == CASE row["budget_level"] = "Budget" -> 1
                           [] row["budget_level"] = "Mid-Range" -> 2
                           [] row["budget_level"] = "Luxury" -> 3
            distance(row) == IF tier(row) >= user THEN tier(row) - user
                             ELSE user - tier(row)
            rows == {scored.candidates[n] : n \in 1..Len(scored.candidates)}
        IN  /\ \A r \in rows :
                 /\ 0 <= r["budget_score"] /\ r["budget_score"] <= Scale
                 /\ (distance(r) = 0) <=> (r["budget_score"] = Scale)
                 /\ (user = 1 /\ tier(r) = 1) => r["budget_score"] = Scale
            /\ \A r, q \in rows :
                 /\ (tier(r) = tier(q)) => r["budget_score"] = q["budget_score"]
                 /\ (distance(r) = 2 /\ distance(q) = 1) =>
                       r["budget_score"] < q["budget_score"]
                 /\ (user = 3 /\ tier(r) = 1 /\ tier(q) = 3) =>
                       r["budget_score"] < q["budget_score"]

\* a call for the luxury persona over rows of all three tiers
C23_Witness ==
    /\ score_call.called
    /\ user_profile["budget_style"] = "luxury"
    /\ \E a, b, c \in 1..Len(scored.candidates) :
          /\ scored.candidates[a]["budget_level"] = "Budget"
          /\ scored.candidates[b]["budget_level"] = "Mid-Range"
          /\ scored.candidates[c]["budget_level"] = "Luxury"
          /\ scored.candidates[a]["budget_score"] < scored.candidates[b]["budget_score"]
          /\ scored.candidates[b]["budget_score"] < scored.candidates[c]["budget_score"]

\* C24: the duration score of a scored row is 1 exactly when the requested
\* bucket is 'short' and the row's ideal-duration hint contains "3-5" or "2-4",
\* or the bucket is 'long' and the hint contains "7-10" or "1-2 weeks"; in
\* every other case, an absent bucket or an empty hint among them, it is 0.5.
C24_DurationMatch ==
    score_call.called =>
        \A n \in 1..Len(scored.candidates) :
            LET row    == scored.candidates[n]
                hint   == row["ideal_durations"]
                bucket == score_call.trip_duration
                match  == \/ bucket = "short"
                             /\ hint \in {"3-5 days", "2-4 days"}
                          \/ bucket = "long"
                             /\ hint \in {"7-10 days", "1-2 weeks"}
            IN  /\ match => row["duration_score"] = Scale
                /\ ~match => row["duration_score"] = Scale \div 2
                /\ hint \in {"3-5 days", "2-4 days", "7-10 days", "1-2 weeks", ""}

\* a call for a long trip that scores a row with a matching hint, a row with a
\* short hint and a row with no hint
C24_Witness ==
    /\ score_call.called
    /\ score_call.trip_duration = "long"
    /\ \E a, b, c \in 1..Len(scored.candidates) :
          /\ scored.candidates[a]["ideal_durations"] = "1-2 weeks"
          /\ scored.candidates[a]["duration_score"] = Scale
          /\ scored.candidates[b]["ideal_durations"] = "3-5 days"
          /\ scored.candidates[b]["duration_score"] = Scale \div 2
          /\ scored.candidates[c]["ideal_durations"] = ""
          /\ scored.candidates[c]["duration_score"] = Scale \div 2

\* C25: the query a call embeds is, separated by single blanks and in this
\* order, the override text when there is one, the expansion of each traveler
\* type, the expansion of each activity preference and one budget keyword; a
\* tag that is in neither table stands for itself, and without override text
\* the query starts with the expansion of the first traveler type.  (The three
\* personas' queries are written out.)
C25_SearchQueryOrder ==
    score_call.called =>
        LET body == CASE user_profile = FoodiePersona ->
                           "food cuisine restaurants culinary dining moderate"
                      [] user_profile = NomadPersona ->
                           "digital_nomad shopping affordable budget"
                      [] OTHER ->
                           "adventure outdoor hiking mountains trekking "
                           \o "nature wildlife parks forests mountains "
                           \o "wellness spa relaxation peaceful tranquil "
                           \o "beaches coastal ocean food wine cuisine "
                           \o "luxury premium"
            first == DictGet(personality_terms, user_profile["traveler_types"][1],
                             user_profile["traveler_types"][1])
        IN  /\ score_call.search_query
                  = IF score_call.preference_changes = NoneVal THEN body
                    ELSE score_call.preference_changes \o " " \o body
            /\ (score_call.preference_changes = NoneVal) =>
                  SubSeq(score_call.search_query, 1, Len(first)) = first

\* a call with override text for the persona whose tags are in neither table
C25_Witness ==
    /\ score_call.called
    /\ user_profile = NomadPersona
    /\ score_call.preference_changes = "somewhere quiet"
    /\ score_call.search_query
          = "somewhere quiet digital_nomad shopping affordable budget"

\* C27: a message without any of the lead-in phrases "go to", "visit",
\* "travel to", "trip to" yields a reply made without a destination; for a
\* message with one, the destination the reply is made for consists of one or
\* two words, in title case, that follow a lead-in phrase in the message.
C27_DestinationIsOneOrTwoTokens ==
    plan_call.called =>
        LET lower == StrLower(plan_call.message)
            args  == plan_call.reply.args
        IN  /\ ~ContainsAny(lower, destination_keywords) => Len(args) = 1
            /\ Len(args) >= 2 =>
                  /\ Len(StrSplit(args[2], 1)) \in {1, 2}
                  /\ args[2] = StrTitle(StrLower(args[2]), 1)
                  /\ \E n \in 1..Len(destination_keywords) :
                        Contains(lower, destination_keywords[n] \o " "
                                        \o StrLower(args[2]))

\* C28: when the lowered message of an itinerary request has a number N
\* directly before "day" or "days", with or without a blank between them, the
\* itinerary is made for min(N, 7) days, N being the first such number; when
\* it has none, the itinerary is made for 3 days.  (N is written out for each
\* message.)
C28_DaysCappedAtSeven ==
    (plan_call.called /\ plan_call.reply.kind = "create_detailed_itinerary") =>
        LET N == CASE plan_call.message = "I want to go to New York City for 5 days" -> 5
                   [] plan_call.message = "plan a trip to Rome for 10 days" -> 10
                   [] plan_call.message = "travel to Peru 14days" -> 14
                   [] plan_call.message
                         = "we will visit Rome then go to Oslo for 7 days" -> 7
                   [] plan_call.message = "trip to Fiji for 1 day or 2 days" -> 1
                   [] OTHER -> -1
            days == plan_call.reply.args[3]
        IN  /\ days <= 7
            /\ (N = -1) => /\ ~Contains(StrLower(plan_call.message), " day")
                           /\ days = 3
            /\ (N # -1) => days = (IF N < 7 THEN N ELSE 7)

\* an itinerary request for 14 days, written without a blank, is made for 7
C28_Witness ==
    /\ plan_call.called
    /\ plan_call.message = "travel to Peru 14days"
    /\ plan_call.reply.kind = "create_detailed_itinerary"
    /\ plan_call.reply.args[3] = 7

\* C30: when the chat model raises during create_travel_plan, the call
\* returns the fallback string of the method the message was routed to (the
\* greeting, the recommendation prompt, the destination response, the
\* detailed itinerary or the general chat), with the destination and the
\* number of days the method substitutes, and no exception leaves the call.
C30_GeneratorCallsGuarded ==
    (plan_call.called /\ ~plan_call.llm_ok) =>
        /\ plan_call.reply.kind
              \in {"create_greeting_response", "create_recommendation_response",
                   "create_destination_response", "create_detailed_itinerary",
                   "create_general_chat_response"}
        /\ plan_call.reply.args[1] = "fallback"
        /\ plan_call.reply.kind # "exception"

\* the chat model raises while a greeting is answered
C30_Witness ==
    /\ plan_call.called /\ ~plan_call.llm_ok
    /\ plan_call.message = "Hello there"
    /\ plan_call.reply = [kind |-> "create_greeting_response", args |-> <<"fallback">>]

\* C29: the persona of the session never lists more than 3 traveler types or
\* more than 5 activity preferences, whether the onboarding form created it or
\* the sign-in loaded it from the stored document; a form is accepted only
\* within the caps, and the persona created from it lists what was ticked.
C29_CapsEnforcedAtCreation ==
    /\ persona # <<>> =>
          /\ Len(persona[1].traveler_types) <= MaxTravelerTypes
          /\ Len(persona[1].activity_preferences) <= MaxActivities
    /\ trip_turn.op = "profile_created" =>
          /\ Len(trip_turn.utterance[1]) <= MaxTravelerTypes
          /\ Len(trip_turn.utterance[2]) <= MaxActivities
          /\ persona[1].traveler_types = trip_turn.utterance[1]
          /\ persona[1].activity_preferences = trip_turn.utterance[2]


----------------------------------------------------------------------------
(* Properties of two conversations served by one handler *)

----------------------------------------------------------------------------
(* Properties of one call of get_recommendations, continued *)

\* C32 (as stated; the code departs from it): when a document of the store
\* holds an embedding that has not the dimension of the others, the list
\* get_recommendations returns has no row for that document and has a row for
\* every well-formed document (there being no more than TopN of them).
C32_MismatchedEmbeddingRejected ==
    score_call.called =>
        LET ids(rows) == {rows[n]["destination_id"] : n \in 1..Len(rows)}
            good == SelectSeq(destinations,
                              LAMBDA d : d["description_embedding"] = "vector")
        IN  Len(good) < Len(destinations) /\ Len(good) <= TopN
               => ids(scored.returned) = ids(good)



----------------------------------------------------------------------------
(* Properties of the dialogue, continued *)

\* C33 (as stated; the code departs from it): recommendation_state is one of
\* the four states; 'showing_recommendations' is entered only from
\* 'waiting_preferences', 'waiting_preferences' only from 'waiting_duration',
\* and 'showing_recommendations' is left only to 'none'.
C33_StrictChain ==
    message # "" =>
        LET pre  == StateOf(pre_state)
            post == StateOf(conversation_state)
        IN  /\ post \in {"none", "waiting_duration", "waiting_preferences",
                         "showing_recommendations"}
            /\ post = "showing_recommendations" /\ pre # post => pre = "waiting_preferences"
            /\ post = "waiting_preferences" /\ pre # post => pre = "waiting_duration"
            /\ pre = "showing_recommendations" /\ pre # post => post = "none"

\* C33 (amended): as above, but 'waiting_preferences' is entered from
\* 'waiting_duration' or, when the request itself carries a duration hint,
\* straight from 'none'; a request without a hint goes from 'none' to
\* 'waiting_duration'.
C33_FlowOrder ==
    message # "" =>
        LET pre  == StateOf(pre_state)
            post == StateOf(conversation_state)
            hint == Detections[message].request.detected_duration
        IN  /\ post \in {"none", "waiting_duration", "waiting_preferences",
                         "showing_recommendations"}
            /\ post = "showing_recommendations" /\ pre # post => pre = "waiting_preferences"
            /\ post = "waiting_preferences" /\ pre # post
                  => \/ pre = "waiting_duration"
                     \/ /\ pre = "none"
                        /\ Detections[message].request.is_recommendation_request
                        /\ Truthy(hint)
            /\ pre = "none" /\ post = "waiting_duration" => ~Truthy(hint)
            /\ pre = "showing_recommendations" /\ pre # post => post = "none"

\* a request that names its duration has been taken from 'none' to
\* 'waiting_preferences'
C33_Witness ==
    /\ message = "suggest a weekend trip in june"
    /\ StateOf(pre_state) = "none"
    /\ StateOf(conversation_state) = "waiting_preferences"



\* C34 (as stated; the code departs from it): whenever recommendation_state
\* is 'showing_recommendations', current_recommendations is a non-empty list.
C34_ShownListNonEmpty ==
    StateOf(conversation_state) = "showing_recommendations"
        => Len(DictGet(conversation_state, "current_recommendations", <<>>)) > 0



\* C35 (as stated; the code departs from it): whenever recommendation_state
\* is 'waiting_preferences' or 'showing_recommendations', detected_duration is
\* 'short' or 'long'.
C35_DurationIsBucket ==
    StateOf(conversation_state) \in {"waiting_preferences", "showing_recommendations"}
        => DictGet(conversation_state, "detected_duration", NoneVal) \in {"short", "long"}



----------------------------------------------------------------------------
(* Properties of the chat page, continued *)

\* C36 (as stated; the code departs from it): when a message arrives in a
\* chat whose current trip context has had its confirmation question answered
\* and still lacks a detail, and the message supplies a lacking detail, then
\* (no call having raised) current_trip_id is what it was, no trip context
\* has been added to the store, and the detail is filled in that context.
C36_DetailsUpdateSameContext ==
    (/\ trip_turn.op = "message"
     /\ ~trip_turn.error
     /\ trip_pre.current_trip_id \in DOMAIN trip_pre.trip_contexts)
    =>
    LET id      == trip_pre.current_trip_id
        before  == trip_pre.trip_contexts[id]
        info    == detect_trip_info(trip_turn.utterance[1])
        supplied == {f \in get_missing_info(before) : Truthy(info[f])}
    IN  before["confirmation_step"] = "details_gathering" /\ supplied # {}
           => /\ current_trip_id = id
              /\ DOMAIN trip_contexts = DOMAIN trip_pre.trip_contexts
              /\ \A f \in supplied : trip_contexts[id][f] = info[f]



----------------------------------------------------------------------------
(* Properties of the dialogue: a second flow, and the replies read by keyword *)

\* C37: when a recommendation request arrives in a conversation that a
\* selection has returned to 'none' (its dict still holding the list and the
\* month and duration of the flow before), the state after the turn has the
\* month and the duration hint of the new utterance alone, None where it names
\* none, and no current_recommendations.
C37_RequestStartsAfresh ==
    (/\ message \in {"recommend me somewhere", "recommend me places in May",
                     "suggest a weekend trip in june"}
     /\ DictGet(pre_state, "recommendation_state", "absent") = "none"
     /\ "current_recommendations" \in DOMAIN pre_state)
    => /\ "current_recommendations" \notin DOMAIN conversation_state
       /\ DOMAIN conversation_state
             = {"recommendation_state", "detected_month", "detected_duration"}
       /\ <<conversation_state["detected_month"], conversation_state["detected_duration"]>>
             = IF message = "recommend me somewhere" THEN <<NoneVal, NoneVal>>
               ELSE IF message = "recommend me places in May" THEN <<"may", NoneVal>>
               ELSE <<"june", "weekend">>

\* after a flow for a weekend in June that ended with a selection, the user
\* has asked again without naming a month or a duration
C37_Witness ==
    /\ message = "recommend me somewhere"
    /\ DictGet(pre_state, "recommendation_state", "absent") = "none"
    /\ DictGet(pre_state, "detected_month", NoneVal) = "june"
    /\ Len(DictGet(pre_state, "current_recommendations", <<>>)) > 0
    /\ StateOf(conversation_state) = "waiting_duration"



\* C38: after a turn taken in 'waiting_preferences' on an utterance with both
\* a confirm-defaults and a want-different keyword, get_recommendations was
\* called once, with the profile of the conversation, no preference changes
\* and a search query that has nothing of the utterance in it; the response is
\* the formatted list, not the question what to change nor a list introduced
\* by the utterance; and recommendation_state is 'showing_recommendations'.
C38_ConfirmWinsOverDifferent ==
    (/\ message # ""
     /\ StateOf(pre_state) = "waiting_preferences"
     /\ ContainsAny(StrLower(message), same_keywords)
     /\ ContainsAny(StrLower(message), different_keywords)) =>
        /\ Len(rec_call) = 1
        /\ rec_call[1].preference_changes = NoneVal
        /\ rec_call[1].search_query = create_search_query(user_profile, NoneVal)
        /\ ~Contains(rec_call[1].search_query, "different")
        /\ response = format_recommendations(conversation_state["current_recommendations"])
        /\ response.kind \notin {"ask_what_to_change", "override_recommendations"}
        /\ StateOf(conversation_state) = "showing_recommendations"

\* "something different from my usual" has been answered with a list
C38_Witness ==
    /\ message = "something different from my usual"
    /\ StateOf(pre_state) = "waiting_preferences"
    /\ StateOf(conversation_state) = "showing_recommendations"
    /\ Len(rec_call) = 1
    /\ Len(conversation_state["current_recommendations"]) > 0



\* C39 (as stated; the code departs from it): after a turn taken in
\* 'waiting_duration' on one of the replies "long", "week", "proper", "7",
\* "10", "14", detected_duration is 'long'; and after a turn taken there that
\* set detected_duration to 'short', one of the words of the utterance is a
\* short-bucket keyword.
C39_LongRepliesAreLong ==
    (message # "" /\ StateOf(pre_state) = "waiting_duration") =>
        /\ message \in {"long", "week", "proper", "7", "10", "14"}
              => /\ StateOf(conversation_state) = "waiting_preferences"
                 /\ DictGet(conversation_state, "detected_duration", NoneVal) = "long"
        /\ (/\ StateOf(conversation_state) = "waiting_preferences"
            /\ DictGet(conversation_state, "detected_duration", NoneVal) = "short")
              => \E n \in 1..Len(StrSplit(StrLower(message), 1)) :
                    \E k \in 1..Len(short_words) :
                       StrSplit(StrLower(message), 1)[n] = short_words[k]


====
